---------------------------- MODULE Spec2Model ----------------------------
(***************************************************************************)
(* Question-to-number resolution pipeline of the video analytics bot.      *)
(*                                                                         *)
(* Text is modelled as a sequence of characters, each character a          *)
(* one-element string.  Cyrillic letters, which the module's lexical       *)
(* syntax cannot carry, are written "ru:<latin name>" (lower case) and     *)
(* "RU:<LATIN NAME>" (upper case), the backquote is written "backtick"     *)
(* and the list bullet "bullet"; each is one character of the text.        *)
(***************************************************************************)
EXTENDS Integers, Sequences, FiniteSets, TLC

VARIABLES
    fn,         \* the function a function-level specification applies ("none" otherwise)
    arg,        \* the argument it is applied to
    called,     \* whether the call has been made
    ret,        \* the call's result, once called
    pc,         \* what the core is waiting for: "idle", or the call in flight
    question,   \* the question being answered
    prompt,     \* the question as it is put to the model
    sql_query,  \* the statement the generator returned for the question
    steps,      \* the steps taken for the question on the store path, in order
    chats,      \* the calls of the model made for the question
    queried,    \* the statements sent to the store for the question, in order
    outcome,    \* how the last call of an entry point ended
    pool,       \* VideoAnalytics.pool: whether the connection pool exists
    current_data, \* FileAnalyzer.current_data
    cached_file_path, \* FileAnalyzer.cached_file_path
    cached_file_name, \* FileAnalyzer.cached_file_name
    cache_dir,  \* the files of CACHE_DIR, the metadata file apart
    metadata,   \* what CACHE_METADATA_FILE holds
    handlers,   \* the message handlers running concurrently: where each one is
    pools,      \* the connection pools asyncpg.create_pool has made
    analytics_pool, \* VideoAnalytics.pool among them: its number, 0 for None
    polling,    \* whether the bot still takes messages (main has not ended)
    answers,    \* two of the questions resolved so far, for comparing them
    process,    \* BotReloadHandler.process of watch_bot: the number of a child, 0 for None
    alive,      \* the bot processes watch_bot has started that have not exited
    spawned,    \* how many bot processes watch_bot has started
    threads     \* where the main thread and the observer thread of watch_bot are

fn_vars == <<fn, arg, called, ret>>

file_vars == <<cached_file_path, cached_file_name, cache_dir, metadata>>

bot_vars == <<handlers, pools, analytics_pool, polling>>

core_vars ==
    <<pc, question, prompt, sql_query, steps, chats, queried, outcome, pool, current_data,
      file_vars, bot_vars, answers>>

watch_vars == <<process, alive, spawned, threads>>

vars == <<fn_vars, core_vars, watch_vars>>

NoValue == [kind |-> "novalue"]

-----------------------------------------------------------------------------
(* Characters                                                              *)

LowerLetters ==
    <<"a", "b", "c", "d", "e", "f", "g", "h", "i", "j", "k", "l", "m", "n", "o", "p", "q", "r", "s", "t", "u", "v", "w", "x", "y", "z">>
    \o <<"ru:a", "ru:b", "ru:v", "ru:g", "ru:d", "ru:e", "ru:yo", "ru:zh", "ru:z", "ru:i", "ru:j", "ru:k", "ru:l", "ru:m", "ru:n", "ru:o", "ru:p", "ru:r", "ru:s", "ru:t", "ru:u", "ru:f", "ru:h", "ru:c", "ru:ch", "ru:sh", "ru:sch", "ru:hard", "ru:y", "ru:soft", "ru:eh", "ru:yu", "ru:ya">>

UpperLetters ==
    <<"A", "B", "C", "D", "E", "F", "G", "H", "I", "J", "K", "L", "M", "N", "O", "P", "Q", "R", "S", "T", "U", "V", "W", "X", "Y", "Z">>
    \o <<"RU:A", "RU:B", "RU:V", "RU:G", "RU:D", "RU:E", "RU:YO", "RU:ZH", "RU:Z", "RU:I", "RU:J", "RU:K", "RU:L", "RU:M", "RU:N", "RU:O", "RU:P", "RU:R", "RU:S", "RU:T", "RU:U", "RU:F", "RU:H", "RU:C", "RU:CH", "RU:SH", "RU:SCH", "RU:HARD", "RU:Y", "RU:SOFT", "RU:EH", "RU:YU", "RU:YA">>

LetterIndex == DOMAIN LowerLetters

ToUpper == [c \in {LowerLetters[i] : i \in LetterIndex} |->
               UpperLetters[CHOOSE i \in LetterIndex : LowerLetters[i] = c]]

ToLower == [c \in {UpperLetters[i] : i \in LetterIndex} |->
               LowerLetters[CHOOSE i \in LetterIndex : UpperLetters[i] = c]]

\* str.upper() and str.lower() on one character
upper_char(c) == IF c \in DOMAIN ToUpper THEN ToUpper[c] ELSE c

lower_char(c) == IF c \in DOMAIN ToLower THEN ToLower[c] ELSE c

Digits == {"0", "1", "2", "3", "4", "5", "6", "7", "8", "9"}

\* what str.strip(), str.split() and the regex class \s take for white space
Whitespace == {" ", "\n", "\t"}

\* the regex class [a-z]
AsciiLower == {LowerLetters[i] : i \in 1..26}

-----------------------------------------------------------------------------
(* Python's string operations, on sequences of characters                  *)

upper(s) == [i \in DOMAIN s |-> upper_char(s[i])]

lower(s) == [i \in DOMAIN s |-> lower_char(s[i])]

\* s[a:b] with 0 <= a, 0 <= b (Python's slice, 0-based, end exclusive)
slice(s, a, b) ==
    LET e == IF b > Len(s) THEN Len(s) ELSE b
    IN  IF a >= e THEN <<>> ELSE SubSeq(s, a + 1, e)

\* s[a:]
slice_from(s, a) == slice(s, a, Len(s))

\* s.startswith(p, at): p occurs in s at 0-based offset at
occurs_at(s, p, at) ==
    /\ at + Len(p) <= Len(s)
    /\ \A k \in 1..Len(p) : s[at + k] = p[k]

startswith(s, p) == occurs_at(s, p, 0)

\* s.find(p, start): the 0-based offset of the first occurrence, -1 if none
find_from(s, p, start) ==
    LET hits == {i \in start..(Len(s) - Len(p)) : occurs_at(s, p, i)}
    IN  IF hits = {} THEN -1 ELSE CHOOSE i \in hits : \A j \in hits : i <= j

find(s, p) == find_from(s, p, 0)

\* p in s
contains(s, p) == find(s, p) # -1

RECURSIVE replace(_, _, _)
\* s.replace(old, new), old not empty: every occurrence, left to right
replace(s, old, new) ==
    LET at == find(s, old)
    IN  IF at = -1 THEN s
        ELSE slice(s, 0, at) \o new \o replace(slice_from(s, at + Len(old)), old, new)

RECURSIVE lstrip(_)
lstrip(s) ==
    IF s # <<>> /\ Head(s) \in Whitespace THEN lstrip(Tail(s)) ELSE s

RECURSIVE rstrip(_)
rstrip(s) ==
    IF s # <<>> /\ s[Len(s)] \in Whitespace THEN rstrip(SubSeq(s, 1, Len(s) - 1)) ELSE s

\* s.strip()
strip(s) == lstrip(rstrip(s))

RECURSIVE rstrip_chars(_, _)
\* s.rstrip(chars)
rstrip_chars(s, chars) ==
    IF s # <<>> /\ s[Len(s)] \in chars
    THEN rstrip_chars(SubSeq(s, 1, Len(s) - 1), chars)
    ELSE s

RECURSIVE split_on(_, _)
\* s.split(c) for a one-character separator: the pieces, empty ones included
split_on(s, c) ==
    LET at == find(s, <<c>>)
    IN  IF at = -1 THEN <<s>>
        ELSE <<slice(s, 0, at)>> \o split_on(slice_from(s, at + 1), c)

RECURSIVE join(_, _)
\* sep.join(parts)
join(sep, parts) ==
    IF parts = <<>> THEN <<>>
    ELSE IF Len(parts) = 1 THEN parts[1]
    ELSE parts[1] \o sep \o join(sep, Tail(parts))

\* [x for x in parts if x]
non_empty(parts) == SelectSeq(parts, LAMBDA p : p # <<>>)

\* str.isdigit(): not empty and every character a digit
isdigit(s) == s # <<>> /\ \A i \in DOMAIN s : s[i] \in Digits


-----------------------------------------------------------------------------
(* SQL validator: VideoAnalytics._validate_sql                             *)

\* kwSELECT: the text 'SELECT'
kwSELECT ==
    <<"S", "E", "L", "E", "C", "T">>

\* the denylist, in the order the validator tries it
forbidden == <<
    <<"D", "R", "O", "P">>,
    <<"D", "E", "L", "E", "T", "E">>,
    <<"U", "P", "D", "A", "T", "E">>,
    <<"I", "N", "S", "E", "R", "T">>,
    <<"A", "L", "T", "E", "R">>,
    <<"C", "R", "E", "A", "T", "E">>,
    <<"T", "R", "U", "N", "C", "A", "T", "E">>,
    <<"E", "X", "E", "C">>,
    <<"E", "X", "E", "C", "U", "T", "E">>,
    <<"G", "R", "A", "N", "T">>,
    <<"R", "E", "V", "O", "K", "E">> >>

\* the validator with the upper-casing left out: matching is case-sensitive
validate_sql_case_sensitive(sql) ==
    LET sql_upper == strip(sql)
    IN  IF \E i \in DOMAIN forbidden : contains(sql_upper, forbidden[i]) THEN FALSE
        ELSE IF ~startswith(sql_upper, kwSELECT) THEN FALSE
        ELSE TRUE

_validate_sql(sql) ==
    LET sql_upper == strip(upper(sql))
    IN  IF \E i \in DOMAIN forbidden : contains(sql_upper, forbidden[i]) THEN FALSE
        ELSE IF ~startswith(sql_upper, kwSELECT) THEN FALSE
        ELSE TRUE


-----------------------------------------------------------------------------
(* Question normalizer: SQLQueryGenerator._normalize_query                 *)

\* the last index of the run of characters of `class` that starts at i
\* (i - 1 when s[i] is not of the class)
RECURSIVE run_end(_, _, _)
run_end(s, i, class) ==
    IF i <= Len(s) /\ s[i] \in class THEN run_end(s, i + 1, class) ELSE i - 1

\* ' '.join(query.split()): white space runs become one space, none at the ends
RECURSIVE collapse_whitespace(_)
collapse_whitespace(s) ==
    LET t == lstrip(s)
        e == run_end(t, 1, {t[i] : i \in DOMAIN t} \ Whitespace)
        rest == lstrip(slice_from(t, e))
    IN  IF t = <<>> THEN <<>>
        ELSE IF rest = <<>> THEN SubSeq(t, 1, e)
        ELSE SubSeq(t, 1, e) \o <<" ">> \o collapse_whitespace(rest)

\* where the pattern (\d+)\s+(\d+) matches at i: the ends of its two groups
digit_groups_at(s, i) ==
    LET j == run_end(s, i, Digits)
        k == run_end(s, j + 1, Whitespace)
        m == run_end(s, k + 1, Digits)
    IN  [matches |-> j >= i /\ k > j /\ m > k, first_end |-> j, gap_end |-> k, last_end |-> m]

\* re.sub(r'(\d+)\s+(\d+)', r'\1\2', query): leftmost matches, not overlapping,
\* the search going on after the end of each match
RECURSIVE merge_digit_groups(_)
merge_digit_groups(s) ==
    LET starts == {i \in DOMAIN s : digit_groups_at(s, i).matches}
    IN  IF starts = {} THEN s
        ELSE LET i == CHOOSE x \in starts : \A y \in starts : x <= y
                 g == digit_groups_at(s, i)
             IN  SubSeq(s, 1, g.first_end) \o SubSeq(s, g.gap_end + 1, g.last_end)
                     \o merge_digit_groups(slice_from(s, g.last_end))

\* syn_skolko_vsego: the text 'сколько всего'
syn_skolko_vsego ==
    <<"ru:s", "ru:k", "ru:o", "ru:l", "ru:soft", "ru:k", "ru:o", " ", "ru:v", "ru:s",
      "ru:e", "ru:g", "ru:o">>
\* syn_skolko: the text 'сколько'
syn_skolko ==
    <<"ru:s", "ru:k", "ru:o", "ru:l", "ru:soft", "ru:k", "ru:o">>
\* syn_kakoe_kolichestvo: the text 'какое количество'
syn_kakoe_kolichestvo ==
    <<"ru:k", "ru:a", "ru:k", "ru:o", "ru:e", " ", "ru:k", "ru:o", "ru:l", "ru:i", "ru:ch",
      "ru:e", "ru:s", "ru:t", "ru:v", "ru:o">>
\* syn_kakaya_summa: the text 'какая сумма'
syn_kakaya_summa ==
    <<"ru:k", "ru:a", "ru:k", "ru:a", "ru:ya", " ", "ru:s", "ru:u", "ru:m", "ru:m", "ru:a">>
\* syn_summarno: the text 'суммарно'
syn_summarno ==
    <<"ru:s", "ru:u", "ru:m", "ru:m", "ru:a", "ru:r", "ru:n", "ru:o">>
\* syn_vsego: the text 'всего'
syn_vsego ==
    <<"ru:v", "ru:s", "ru:e", "ru:g", "ru:o">>
\* syn_v_summe: the text 'в сумме'
syn_v_summe ==
    <<"ru:v", " ", "ru:s", "ru:u", "ru:m", "ru:m", "ru:e">>
\* syn_vsego_vmeste: the text 'всего вместе'
syn_vsego_vmeste ==
    <<"ru:v", "ru:s", "ru:e", "ru:g", "ru:o", " ", "ru:v", "ru:m", "ru:e", "ru:s", "ru:t",
      "ru:e">>
\* syn_za_ves_period: the text 'за весь период'
syn_za_ves_period ==
    <<"ru:z", "ru:a", " ", "ru:v", "ru:e", "ru:s", "ru:soft", " ", "ru:p", "ru:e", "ru:r",
      "ru:i", "ru:o", "ru:d">>
\* syn_za_vse_vremya: the text 'за все время'
syn_za_vse_vremya ==
    <<"ru:z", "ru:a", " ", "ru:v", "ru:s", "ru:e", " ", "ru:v", "ru:r", "ru:e", "ru:m",
      "ru:ya">>
\* syn_za_vsyo_vremya: the text 'за всё время'
syn_za_vsyo_vremya ==
    <<"ru:z", "ru:a", " ", "ru:v", "ru:s", "ru:yo", " ", "ru:v", "ru:r", "ru:e", "ru:m",
      "ru:ya">>

\* the synonym table, in the order the dictionary is iterated
replacements == <<
    <<syn_skolko_vsego, syn_skolko>>,
    <<syn_kakoe_kolichestvo, syn_skolko>>,
    <<syn_kakaya_summa, syn_skolko_vsego>>,
    <<syn_summarno, syn_vsego>>,
    <<syn_v_summe, syn_vsego>>,
    <<syn_vsego_vmeste, syn_vsego>>,
    <<syn_za_ves_period, syn_za_vsyo_vremya>>,
    <<syn_za_vse_vremya, syn_za_vsyo_vremya>>,
    <<syn_za_vsyo_vremya, syn_za_vsyo_vremya>> >>

\* the loop over the table from entry n on
RECURSIVE apply_replacements(_, _)
apply_replacements(query, n) ==
    IF n > Len(replacements) THEN query
    ELSE LET old == replacements[n][1]
             new == replacements[n][2]
         IN  IF contains(lower(query), old)
             THEN apply_replacements(replace(query, old, new), n + 1)
             ELSE apply_replacements(query, n + 1)

_normalize_query(query) ==
    strip(apply_replacements(merge_digit_groups(collapse_whitespace(query)), 1))


-----------------------------------------------------------------------------
(* SQL generator: SQLQueryGenerator.generate_sql                           *)

\* fence: the text '<backtick><backtick><backtick>'
fence ==
    <<"backtick", "backtick", "backtick">>
\* fence_sql: the text '<backtick><backtick><backtick>sql'
fence_sql ==
    <<"backtick", "backtick", "backtick", "s", "q", "l">>
\* msgApiError: the text 'Ошибка при обращении к GigaChat API: '
msgApiError ==
    <<"RU:O", "ru:sh", "ru:i", "ru:b", "ru:k", "ru:a", " ", "ru:p", "ru:r", "ru:i", " ",
      "ru:o", "ru:b", "ru:r", "ru:a", "ru:sch", "ru:e", "ru:n", "ru:i", "ru:i", " ",
      "ru:k", " ", "G", "i", "g", "a", "C", "h", "a", "t", " ", "A", "P", "I", ":", " ">>
\* msgUnexpectedFormat: the text 'Неожиданный формат ответа от GigaChat: '
msgUnexpectedFormat ==
    <<"RU:N", "ru:e", "ru:o", "ru:zh", "ru:i", "ru:d", "ru:a", "ru:n", "ru:n", "ru:y",
      "ru:j", " ", "ru:f", "ru:o", "ru:r", "ru:m", "ru:a", "ru:t", " ", "ru:o", "ru:t",
      "ru:v", "ru:e", "ru:t", "ru:a", " ", "ru:o", "ru:t", " ", "G", "i", "g", "a", "C",
      "h", "a", "t", ":", " ">>
\* msgNoStrip: the text "'NoneType' object has no attribute 'strip'"
msgNoStrip ==
    <<"'", "N", "o", "n", "e", "T", "y", "p", "e", "'", " ", "o", "b", "j", "e", "c", "t",
      " ", "h", "a", "s", " ", "n", "o", " ", "a", "t", "t", "r", "i", "b", "u", "t", "e",
      " ", "'", "s", "t", "r", "i", "p", "'">>
\* msgNoSql: the text 'Ответ не содержит SQL запрос. Получено: '
msgNoSql ==
    <<"RU:O", "ru:t", "ru:v", "ru:e", "ru:t", " ", "ru:n", "ru:e", " ", "ru:s", "ru:o",
      "ru:d", "ru:e", "ru:r", "ru:zh", "ru:i", "ru:t", " ", "S", "Q", "L", " ", "ru:z",
      "ru:a", "ru:p", "ru:r", "ru:o", "ru:s", ".", " ", "RU:P", "ru:o", "ru:l", "ru:u",
      "ru:ch", "ru:e", "ru:n", "ru:o", ":", " ">>
\* msgTooShort: the text 'Пустой или слишком короткий ответ от GigaChat'
msgTooShort ==
    <<"RU:P", "ru:u", "ru:s", "ru:t", "ru:o", "ru:j", " ", "ru:i", "ru:l", "ru:i", " ",
      "ru:s", "ru:l", "ru:i", "ru:sh", "ru:k", "ru:o", "ru:m", " ", "ru:k", "ru:o", "ru:r",
      "ru:o", "ru:t", "ru:k", "ru:i", "ru:j", " ", "ru:o", "ru:t", "ru:v", "ru:e", "ru:t",
      " ", "ru:o", "ru:t", " ", "G", "i", "g", "a", "C", "h", "a", "t">>
\* msgNotSelect: the text 'Ответ не начинается с SELECT: '
msgNotSelect ==
    <<"RU:O", "ru:t", "ru:v", "ru:e", "ru:t", " ", "ru:n", "ru:e", " ", "ru:n", "ru:a",
      "ru:ch", "ru:i", "ru:n", "ru:a", "ru:e", "ru:t", "ru:s", "ru:ya", " ", "ru:s", " ",
      "S", "E", "L", "E", "C", "T", ":", " ">>
\* ellipsis: the text '...'
ellipsis ==
    <<".", ".", ".">>

\* the shortest text the generator returns
MinSqlLength == 10

\* The text of the model's response.  A response is a record: shape says which
\* of the probed forms it has, content is the string found there.  The shapes:
\* "choices", "content", "str" and "attr" hold the string where the first, the
\* second, the third probe or the loop over the attributes finds it;
\* "choices_none" and "content_none" hold None where "choices" and "content"
\* hold the string; "choices_none_content" holds None in choices and the string
\* in content; "other" holds none of the attributes.
extract_text(response) ==
    CASE response.shape \in {"choices", "content", "str"} ->
            [ok |-> TRUE, text |-> strip(response.content)]
      [] response.shape \in {"choices_none", "choices_none_content", "content_none"} ->
            [ok |-> FALSE, error |-> msgNoStrip]
      [] response.shape = "attr" ->
            IF strip(response.content) # <<>>
            THEN [ok |-> TRUE, text |-> strip(response.content)]
            ELSE [ok |-> FALSE, error |-> msgUnexpectedFormat]
      [] OTHER -> [ok |-> FALSE, error |-> msgUnexpectedFormat]

\* re.sub(r'```[a-z]*\n?', '', text)
RECURSIVE remove_fence_markers(_)
remove_fence_markers(s) ==
    LET at == find(s, fence)
        e == run_end(s, at + 4, AsciiLower)
        e2 == IF e + 1 <= Len(s) /\ s[e + 1] = "\n" THEN e + 1 ELSE e
    IN  IF at = -1 THEN s
        ELSE slice(s, 0, at) \o remove_fence_markers(slice_from(s, e2))

\* the markdown clean-up
strip_markdown(text) ==
    IF contains(text, fence_sql)
    THEN LET start == find(text, fence_sql) + 6
             end == find_from(text, fence, start)
         IN  IF end # -1 THEN strip(slice(text, start, end))
             ELSE strip(replace(replace(text, fence_sql, <<>>), fence, <<>>))
    ELSE IF contains(text, fence)
    THEN strip(replace(remove_fence_markers(text), fence, <<>>))
    ELSE text

\* the stripped non-empty lines joined by one space
one_line(text) ==
    LET lines == split_on(text, "\n")
    IN  join(<<" ">>, non_empty([i \in DOMAIN lines |-> strip(lines[i])]))

\* pfx_SQL: the text 'SQL:'
pfx_SQL ==
    <<"S", "Q", "L", ":">>
\* pfx_sql: the text 'sql:'
pfx_sql ==
    <<"s", "q", "l", ":">>
\* pfx_Zapros: the text 'Запрос:'
pfx_Zapros ==
    <<"RU:Z", "ru:a", "ru:p", "ru:r", "ru:o", "ru:s", ":">>
\* pfx_zapros: the text 'запрос:'
pfx_zapros ==
    <<"ru:z", "ru:a", "ru:p", "ru:r", "ru:o", "ru:s", ":">>
\* pfx_Otvet: the text 'Ответ:'
pfx_Otvet ==
    <<"RU:O", "ru:t", "ru:v", "ru:e", "ru:t", ":">>
\* pfx_otvet: the text 'ответ:'
pfx_otvet ==
    <<"ru:o", "ru:t", "ru:v", "ru:e", "ru:t", ":">>
\* pfx_Vot_SQL_zapros: the text 'Вот SQL запрос:'
pfx_Vot_SQL_zapros ==
    <<"RU:V", "ru:o", "ru:t", " ", "S", "Q", "L", " ", "ru:z", "ru:a", "ru:p", "ru:r",
      "ru:o", "ru:s", ":">>
\* pfx_SQL_zapros: the text 'SQL запрос:'
pfx_SQL_zapros ==
    <<"S", "Q", "L", " ", "ru:z", "ru:a", "ru:p", "ru:r", "ru:o", "ru:s", ":">>
\* pfx_Zapros_SQL: the text 'Запрос SQL:'
pfx_Zapros_SQL ==
    <<"RU:Z", "ru:a", "ru:p", "ru:r", "ru:o", "ru:s", " ", "S", "Q", "L", ":">>
\* pfx_select: the text 'select'
pfx_select ==
    <<"s", "e", "l", "e", "c", "t">>

\* the preambles, in the order they are tried
prefixes == <<pfx_SQL, pfx_sql, pfx_Zapros, pfx_zapros, pfx_Otvet, pfx_otvet,
              pfx_Vot_SQL_zapros, pfx_SQL_zapros, pfx_Zapros_SQL, kwSELECT, pfx_select>>

\* the first preamble the text starts with is cut off
strip_prefix_of(text, list) ==
    LET hits == {i \in DOMAIN list : startswith(text, list[i])}
    IN  IF hits = {} THEN text
        ELSE LET i == CHOOSE x \in hits : \A y \in hits : x <= y
             IN  strip(slice_from(text, Len(list[i])))

strip_prefix(text) == strip_prefix_of(text, prefixes)

\* marker_blank_line: the text '\n\n'
marker_blank_line ==
    <<"\n", "\n">>
\* marker_Etot_zapros: the text 'Этот запрос'
marker_Etot_zapros ==
    <<"RU:EH", "ru:t", "ru:o", "ru:t", " ", "ru:z", "ru:a", "ru:p", "ru:r", "ru:o", "ru:s">>
\* marker_Zapros: the text 'Запрос'
marker_Zapros ==
    <<"RU:Z", "ru:a", "ru:p", "ru:r", "ru:o", "ru:s">>
\* marker_SQL: the text 'SQL'
marker_SQL ==
    <<"S", "Q", "L">>

end_markers == <<marker_blank_line, marker_Etot_zapros, marker_Zapros, marker_SQL, kwSELECT>>

\* the loop over the end markers from marker n on
RECURSIVE trim_at_end_marker(_, _)
trim_at_end_marker(text, n) ==
    IF n > Len(end_markers) THEN text
    ELSE LET marker == end_markers[n]
             marker_pos == find_from(text, marker, Len(text) \div 2)
         IN  IF /\ contains(text, marker)
                /\ 10 * find(text, marker) > 3 * Len(text)
                /\ marker_pos # -1
             THEN strip(slice(text, 0, marker_pos))
             ELSE trim_at_end_marker(text, n + 1)

\* the check that the text is a SELECT, and the search for one when it is not
locate_select(text) ==
    LET text_upper == strip(upper(text))
        select_pos == find(text_upper, kwSELECT)
        found == strip(slice_from(text, select_pos))
        semicolon_pos == find(found, <<";">>)
    IN  IF startswith(text_upper, kwSELECT) THEN [ok |-> TRUE, text |-> text]
        ELSE IF select_pos = -1
        THEN [ok |-> FALSE, error |-> msgNoSql \o slice(text, 0, 100) \o ellipsis]
        ELSE IF semicolon_pos # -1
        THEN [ok |-> TRUE, text |-> slice(found, 0, semicolon_pos + 1)]
        ELSE [ok |-> TRUE, text |-> trim_at_end_marker(found, 1)]

\* the trailing semicolon is dropped and the text returned as it is
final_unchecked(text) ==
    [ok |-> TRUE, text |-> strip(rstrip_chars(text, {";"}))]

\* the trailing semicolon is dropped and the final checks are made
final_check(text) ==
    LET sql == strip(rstrip_chars(text, {";"}))
    IN  IF sql = <<>> \/ Len(sql) < MinSqlLength
        THEN [ok |-> FALSE, error |-> msgTooShort]
        ELSE IF ~startswith(upper(sql), kwSELECT)
        THEN [ok |-> FALSE, error |-> msgNotSelect \o slice(sql, 0, 50)]
        ELSE [ok |-> TRUE, text |-> sql]

\* what the generator makes of the model's response once the call has returned;
\* every failure is raised again as one exception whose message starts with
\* msgApiError
clean_response(response) ==
    LET extracted == extract_text(response)
        located == locate_select(strip_prefix(one_line(strip_markdown(extracted.text))))
        checked == final_check(located.text)
        failure(r) == [ok |-> FALSE, error |-> msgApiError \o r.error]
    IN  IF ~extracted.ok THEN failure(extracted)
        ELSE IF ~located.ok THEN failure(located)
        ELSE IF ~checked.ok THEN failure(checked)
        ELSE checked


-----------------------------------------------------------------------------
(* Numbers                                                                 *)
(*                                                                         *)
(* A natural number is kept in two limbs, hi * Limb + lo, so that values   *)
(* around 2^53, where a double stops holding every integer, stay within    *)
(* the arithmetic of the checker.  A Python number is a record             *)
(*   [type, cls, neg, mag, frac]                                           *)
(* type "int", "float" or "Decimal"; cls "finite", "inf", "nan", "snan"    *)
(* (a signalling Decimal NaN) or "huge" (a magnitude beyond the range of   *)
(* a double); neg the sign; mag the integer part of the magnitude; frac    *)
(* whether a non-zero fractional part follows it.  None is                 *)
(* [type |-> "NoneType"], a string [type |-> "str", text |-> ...], any     *)
(* other value [type |-> "object"].                                        *)

Limb == 2^26

nat(n) == [hi |-> n \div Limb, lo |-> n % Limb]

is_zero(m) == m.hi = 0 /\ m.lo = 0

py_none == [type |-> "NoneType"]

py_str(text) == [type |-> "str", text |-> text]

py_num(type, cls, neg, mag, frac) ==
    [type |-> type, cls |-> cls, neg |-> neg, mag |-> mag, frac |-> frac]

py_int(neg, mag) == py_num("int", "finite", neg, mag, FALSE)

py_float(neg, mag, frac) == py_num("float", "finite", neg, mag, frac)

\* 0.0
float_zero == py_float(FALSE, nat(0), FALSE)

\* the bits of a magnitude beyond the 53 a double's significand holds,
\* from its high limb
RECURSIVE excess_bits(_)
excess_bits(hi) == IF hi < 2^27 THEN 0 ELSE 1 + excess_bits(hi \div 2)

\* the integer magnitude a double holds for m: the nearest multiple of
\* 2^excess_bits, a tie going to the even significand
round_to_double(m) ==
    LET unit == 2^excess_bits(m.hi)
        r == m.lo % unit
        q_odd == (m.lo \div unit) % 2 = 1
        up == 2 * r > unit \/ (2 * r = unit /\ q_odd)
        lo2 == m.lo - r + (IF up THEN unit ELSE 0)
    IN  IF unit = 1 THEN m
        ELSE IF lo2 >= Limb THEN [hi |-> m.hi + 1, lo |-> lo2 - Limb]
        ELSE [hi |-> m.hi, lo |-> lo2]

\* errIntTooLarge: the text 'int too large to convert to float'
errIntTooLarge ==
    <<"i", "n", "t", " ", "t", "o", "o", " ", "l", "a", "r", "g", "e", " ", "t", "o", " ",
      "c", "o", "n", "v", "e", "r", "t", " ", "t", "o", " ", "f", "l", "o", "a", "t">>
\* errFloatInfinity: the text 'cannot convert float infinity to integer'
errFloatInfinity ==
    <<"c", "a", "n", "n", "o", "t", " ", "c", "o", "n", "v", "e", "r", "t", " ", "f", "l",
      "o", "a", "t", " ", "i", "n", "f", "i", "n", "i", "t", "y", " ", "t", "o", " ", "i",
      "n", "t", "e", "g", "e", "r">>
\* errFloatNaN: the text 'cannot convert float NaN to integer'
errFloatNaN ==
    <<"c", "a", "n", "n", "o", "t", " ", "c", "o", "n", "v", "e", "r", "t", " ", "f", "l",
      "o", "a", "t", " ", "N", "a", "N", " ", "t", "o", " ", "i", "n", "t", "e", "g", "e",
      "r">>
\* errNotANumber: the text 'could not convert to float'
errNotANumber ==
    <<"c", "o", "u", "l", "d", " ", "n", "o", "t", " ", "c", "o", "n", "v", "e", "r", "t",
      " ", "t", "o", " ", "f", "l", "o", "a", "t">>

\* float(x) for a number or any other object that is not a string
to_float(x) ==
    CASE x.type = "float" -> [ok |-> TRUE, value |-> x]
      [] x.type = "int" /\ x.cls = "huge" ->
            [ok |-> FALSE, exc |-> "OverflowError", error |-> errIntTooLarge]
      [] x.type = "Decimal" /\ x.cls = "snan" ->
            [ok |-> FALSE, exc |-> "ValueError", error |-> errNotANumber]
      [] x.type = "Decimal" /\ x.cls \in {"inf", "huge"} ->
            [ok |-> TRUE, value |-> py_num("float", "inf", x.neg, nat(0), FALSE)]
      [] x.type = "Decimal" /\ x.cls = "nan" ->
            [ok |-> TRUE, value |-> py_num("float", "nan", x.neg, nat(0), FALSE)]
      [] x.type \in {"int", "Decimal"} ->
            [ok |-> TRUE, value |-> py_float(x.neg, round_to_double(x.mag), x.frac)]
      [] OTHER -> [ok |-> FALSE, exc |-> "TypeError", error |-> errNotANumber]

DigitSeq == <<"0", "1", "2", "3", "4", "5", "6", "7", "8", "9">>

digit_value(c) == (CHOOSE i \in DOMAIN DigitSeq : DigitSeq[i] = c) - 1

\* the number a run of decimal digits writes
RECURSIVE nat_from_digits(_)
nat_from_digits(ds) ==
    IF ds = <<>> THEN nat(0)
    ELSE LET m == nat_from_digits(SubSeq(ds, 1, Len(ds) - 1))
             lo == m.lo * 10 + digit_value(ds[Len(ds)])
         IN  [hi |-> m.hi * 10 + lo \div Limb, lo |-> lo % Limb]

\* word_inf: the text 'inf'
word_inf ==
    <<"i", "n", "f">>
\* word_infinity: the text 'infinity'
word_infinity ==
    <<"i", "n", "f", "i", "n", "i", "t", "y">>
\* word_nan: the text 'nan'
word_nan ==
    <<"n", "a", "n">>

\* float(s) for a string: white space around it, a sign, then inf, infinity or
\* nan in any letter case, or digits with at most one point among them and at
\* least one digit.  (Exponents and digit-grouping underscores are not
\* modelled; no string of the model has them.)
parse_float(s) ==
    LET t == strip(s)
        signed == t # <<>> /\ t[1] \in {"+", "-"}
        neg == t # <<>> /\ t[1] = "-"
        body == IF signed THEN Tail(t) ELSE t
        point == find(body, <<".">>)
        whole == IF point = -1 THEN body ELSE slice(body, 0, point)
        fraction == IF point = -1 THEN <<>> ELSE slice_from(body, point + 1)
        value_error == [ok |-> FALSE, exc |-> "ValueError", error |-> errNotANumber]
    IN  IF lower(body) \in {word_inf, word_infinity}
        THEN [ok |-> TRUE, value |-> py_num("float", "inf", neg, nat(0), FALSE)]
        ELSE IF lower(body) = word_nan
        THEN [ok |-> TRUE, value |-> py_num("float", "nan", neg, nat(0), FALSE)]
        ELSE IF /\ whole \o fraction # <<>>
                /\ \A i \in DOMAIN whole : whole[i] \in Digits
                /\ \A i \in DOMAIN fraction : fraction[i] \in Digits
        THEN [ok |-> TRUE,
              value |-> py_float(neg, round_to_double(nat_from_digits(whole)),
                                 \E i \in DOMAIN fraction : fraction[i] # "0")]
        ELSE value_error

\* the decimal digits of a magnitude
RECURSIVE decimal_digits(_)
decimal_digits(m) ==
    LET x == (m.hi % 10) * Limb + m.lo
        q == [hi |-> m.hi \div 10, lo |-> x \div 10]
    IN  IF m.hi = 0 /\ m.lo < 10 THEN <<DigitSeq[m.lo + 1]>>
        ELSE decimal_digits(q) \o <<DigitSeq[(x % 10) + 1]>>

\* str(n) for the integer with sign neg and magnitude m
str_int(neg, m) ==
    (IF neg /\ ~is_zero(m) THEN <<"-">> ELSE <<>>) \o decimal_digits(m)

\* str(int(x)) for a float x: the fractional part is dropped
str_int_of_float(x) ==
    CASE x.cls = "inf" -> [ok |-> FALSE, exc |-> "OverflowError", error |-> errFloatInfinity]
      [] x.cls = "nan" -> [ok |-> FALSE, exc |-> "ValueError", error |-> errFloatNaN]
      [] OTHER -> [ok |-> TRUE, text |-> str_int(x.neg, x.mag)]


-----------------------------------------------------------------------------
(* Executor and result formatter: VideoAnalytics._execute_query and        *)
(* VideoAnalytics._format_number                                           *)

\* msgExecuteError: the text 'Ошибка при выполнении SQL запроса: '
msgExecuteError ==
    <<"RU:O", "ru:sh", "ru:i", "ru:b", "ru:k", "ru:a", " ", "ru:p", "ru:r", "ru:i", " ",
      "ru:v", "ru:y", "ru:p", "ru:o", "ru:l", "ru:n", "ru:e", "ru:n", "ru:i", "ru:i", " ",
      "S", "Q", "L", " ", "ru:z", "ru:a", "ru:p", "ru:r", "ru:o", "ru:s", "ru:a", ":", " ">>
\* text_zero: the text '0'
text_zero ==
    <<"0">>

\* What the executor makes of the store's reply to the query.  The reply is
\* [kind |-> "no_pool", error |-> text] when the connection pool could not be
\* had (that exception leaves the executor as it is), [kind |-> "error",
\* error |-> text] when the fetch raised, and otherwise [kind |-> "rows",
\* rows |-> <<row, ...>>], each row a sequence of values.
_execute_query(reply) ==
    LET value == reply.rows[1][1]
        parsed == parse_float(value.text)
        converted == to_float(value)
        failure(e) == [ok |-> FALSE, error |-> msgExecuteError \o e]
    IN  IF reply.kind = "no_pool" THEN [ok |-> FALSE, error |-> reply.error]
        ELSE IF reply.kind = "error" THEN failure(reply.error)
        ELSE IF reply.rows = <<>> THEN [ok |-> TRUE, value |-> float_zero]
        ELSE IF reply.rows[1] = <<>> THEN [ok |-> TRUE, value |-> float_zero]
        ELSE IF value.type = "NoneType" THEN [ok |-> TRUE, value |-> float_zero]
        ELSE IF value.type \in {"int", "float"}
        THEN IF converted.ok THEN converted ELSE failure(converted.error)
        ELSE IF value.type = "str"
        THEN IF parsed.ok THEN parsed ELSE [ok |-> TRUE, value |-> float_zero]
        ELSE IF converted.ok THEN converted ELSE [ok |-> TRUE, value |-> float_zero]

\* The formatter: the text of the number, or the exception it raises.
_format_number(number) ==
    LET parsed == parse_float(replace(number.text, <<" ">>, <<>>))
        converted == to_float(number)
    IN  IF number.type = "NoneType" THEN [ok |-> TRUE, text |-> text_zero]
        ELSE IF number.type = "str"
        THEN IF parsed.ok THEN str_int_of_float(parsed.value)
             ELSE [ok |-> TRUE, text |-> text_zero]
        ELSE IF converted.ok THEN str_int_of_float(converted.value)
        ELSE [ok |-> FALSE, exc |-> converted.exc, error |-> converted.error]


-----------------------------------------------------------------------------
(* Numeric extraction: FileAnalyzer._extract_number                        *)

\* dollar: the text '$'
dollar ==
    <<"$">>
\* double_dollar: the text '$$'
double_dollar ==
    <<"$", "$">>

\* re.sub of a pattern that is an opening mark, anything up to the nearest
\* closing mark, and the closing mark: each such stretch is removed
RECURSIVE remove_between(_, _, _)
remove_between(s, open, close) ==
    LET at == find(s, open)
        e == find_from(s, close, at + Len(open))
    IN  IF at = -1 \/ e = -1 THEN s
        ELSE slice(s, 0, at) \o remove_between(slice_from(s, e + Len(close)), open, close)

\* where n asterisks, one or more characters that are not asterisks, and n
\* asterisks again start at index i: the index of the last inner character
\* (0 when the pattern does not match at i)
emphasis_at(s, i, n) ==
    LET r == run_end(s, i + n, {s[k] : k \in DOMAIN s} \ {"*"})
    IN  IF /\ r + n <= Len(s)
           /\ r >= i + n
           /\ \A k \in 0..(n - 1) : s[i + k] = "*" /\ s[r + 1 + k] = "*"
        THEN r ELSE 0

\* re.sub(r'\*\*([^*]+)\*\*', r'\1', text) for n = 2 and
\* re.sub(r'\*([^*]+)\*', r'\1', text) for n = 1
RECURSIVE remove_emphasis(_, _)
remove_emphasis(s, n) ==
    LET starts == {i \in DOMAIN s : emphasis_at(s, i, n) # 0}
    IN  IF starts = {} THEN s
        ELSE LET i == CHOOSE x \in starts : \A y \in starts : x <= y
                 r == emphasis_at(s, i, n)
             IN  SubSeq(s, 1, i - 1) \o SubSeq(s, i + n, r)
                     \o remove_emphasis(slice_from(s, r + n), n)

\* the clean-up before the search: LaTeX spans, code fence marks, emphasis marks
strip_formatting(text) ==
    LET no_display == remove_between(text, double_dollar, double_dollar)
        no_latex == remove_between(no_display, dollar, dollar)
        no_fence == replace(remove_fence_markers(no_latex), fence, <<>>)
    IN  remove_emphasis(remove_emphasis(no_fence, 2), 1)

\* re.findall(r'[\d\s]+', text): the maximal runs of digits and white space
RECURSIVE digit_space_runs(_)
digit_space_runs(s) ==
    LET class == Digits \cup Whitespace
        starts == {i \in DOMAIN s : s[i] \in class}
    IN  IF starts = {} THEN <<>>
        ELSE LET i == CHOOSE x \in starts : \A y \in starts : x <= y
                 e == run_end(s, i, class)
             IN  <<SubSeq(s, i, e)>> \o digit_space_runs(slice_from(s, e))

\* re.sub(r'\s', '', x)
without_whitespace(s) == SelectSeq(s, LAMBDA c : c \notin Whitespace)

\* max(matches, key=...) picking the last of the matches with the most digits
last_longest_match(matches) ==
    LET size(k) == Len(without_whitespace(matches[k]))
        best == CHOOSE k \in DOMAIN matches :
                    /\ \A j \in DOMAIN matches : size(j) <= size(k)
                    /\ \A j \in (k + 1)..Len(matches) : size(j) < size(k)
    IN  matches[best]

\* max(matches, key=...): the first match with the most digits
longest_match(matches) ==
    LET size(k) == Len(without_whitespace(matches[k]))
        best == CHOOSE k \in DOMAIN matches :
                    /\ \A j \in DOMAIN matches : size(j) <= size(k)
                    /\ \A j \in 1..(k - 1) : size(j) < size(k)
    IN  matches[best]

\* the first match of \d+[.,]?\d* in s, <<>> when there is none
first_decimal_match(s) ==
    LET starts == {i \in DOMAIN s : s[i] \in Digits}
        i == CHOOSE x \in starts : \A y \in starts : x <= y
        e == run_end(s, i, Digits)
        e2 == IF e + 1 <= Len(s) /\ s[e + 1] \in {".", ","}
              THEN run_end(s, e + 2, Digits) ELSE e
    IN  IF starts = {} THEN <<>> ELSE SubSeq(s, i, e2)

_extract_number(text) ==
    LET cleaned == strip_formatting(text)
        matches == digit_space_runs(cleaned)
        number == without_whitespace(longest_match(matches))
        decimal == first_decimal_match(cleaned)
        number_str == replace(replace(decimal, <<",">>, <<".">>), <<" ">>, <<>>)
        num == parse_float(number_str)
    IN  IF matches # <<>> /\ isdigit(number) THEN [ok |-> TRUE, text |-> number]
        ELSE IF decimal # <<>> /\ num.ok THEN str_int_of_float(num.value)
        ELSE [ok |-> TRUE, text |-> text_zero]


-----------------------------------------------------------------------------
(* File-mode document validator: FileAnalyzer._validate_data_structure     *)
(*                                                                         *)
(* A JSON value is a record: an object [type |-> "dict", fields |-> r]     *)
(* with r a record of its members, an array [type |-> "list", items |->    *)
(* <<...>>], a string py_str(text), null py_none, a number py_int(...).    *)

json_object(fields) == [type |-> "dict", fields |-> fields]

json_array(items) == [type |-> "list", items |-> items]

has_key(object, key) == key \in DOMAIN object.fields

\* word_None: the text 'None'
word_None ==
    <<"N", "o", "n", "e">>

\* str(x) as an f-string writes x
format_value(x) ==
    CASE x.type = "str" -> x.text
      [] x.type = "NoneType" -> word_None
      [] x.type = "int" -> str_int(x.neg, x.mag)
      [] OTHER -> <<"<", "o", "b", "j", "e", "c", "t", ">">>

\* type(x).__name__
type_name(x) == [i \in 1..Len(x.type) |-> SubSeq(x.type, i, i)]

HexDigits == Digits \cup {"a", "b", "c", "d", "e", "f", "A", "B", "C", "D", "E", "F"}

\* the form 8-4-4-4-12 on the first 36 characters
uuid_form(s) ==
    /\ Len(s) >= 36
    /\ \A i \in 1..36 : IF i \in {9, 14, 19, 24} THEN s[i] = "-" ELSE s[i] \in HexDigits

\* uuid_pattern.match(s): ^ ... $ around the 8-4-4-4-12 form; $ matches at the
\* end of the string and also just before a line break that ends the string
uuid_pattern_match(s) ==
    /\ uuid_form(s)
    /\ \/ Len(s) = 36
       \/ Len(s) = 37 /\ s[37] = "\n"

\* msgNotObject: the text 'Данные должны быть объектом (словарем), а не массивом или примитивом'
msgNotObject ==
    <<"RU:D", "ru:a", "ru:n", "ru:n", "ru:y", "ru:e", " ", "ru:d", "ru:o", "ru:l", "ru:zh",
      "ru:n", "ru:y", " ", "ru:b", "ru:y", "ru:t", "ru:soft", " ", "ru:o", "ru:b",
      "ru:hard", "ru:e", "ru:k", "ru:t", "ru:o", "ru:m", " ", "(", "ru:s", "ru:l", "ru:o",
      "ru:v", "ru:a", "ru:r", "ru:e", "ru:m", ")", ",", " ", "ru:a", " ", "ru:n", "ru:e",
      " ", "ru:m", "ru:a", "ru:s", "ru:s", "ru:i", "ru:v", "ru:o", "ru:m", " ", "ru:i",
      "ru:l", "ru:i", " ", "ru:p", "ru:r", "ru:i", "ru:m", "ru:i", "ru:t", "ru:i", "ru:v",
      "ru:o", "ru:m">>
\* msgNoVideosKey: the text "Отсутствует ключ 'videos' в корневом объекте данных"
msgNoVideosKey ==
    <<"RU:O", "ru:t", "ru:s", "ru:u", "ru:t", "ru:s", "ru:t", "ru:v", "ru:u", "ru:e",
      "ru:t", " ", "ru:k", "ru:l", "ru:yu", "ru:ch", " ", "'", "v", "i", "d", "e", "o",
      "s", "'", " ", "ru:v", " ", "ru:k", "ru:o", "ru:r", "ru:n", "ru:e", "ru:v", "ru:o",
      "ru:m", " ", "ru:o", "ru:b", "ru:hard", "ru:e", "ru:k", "ru:t", "ru:e", " ", "ru:d",
      "ru:a", "ru:n", "ru:n", "ru:y", "ru:h">>
\* msgVideosNotArray: the text "Поле 'videos' должно быть массивом"
msgVideosNotArray ==
    <<"RU:P", "ru:o", "ru:l", "ru:e", " ", "'", "v", "i", "d", "e", "o", "s", "'", " ",
      "ru:d", "ru:o", "ru:l", "ru:zh", "ru:n", "ru:o", " ", "ru:b", "ru:y", "ru:t",
      "ru:soft", " ", "ru:m", "ru:a", "ru:s", "ru:s", "ru:i", "ru:v", "ru:o", "ru:m">>
\* msgVideosEmpty: the text "Массив 'videos' пуст"
msgVideosEmpty ==
    <<"RU:M", "ru:a", "ru:s", "ru:s", "ru:i", "ru:v", " ", "'", "v", "i", "d", "e", "o",
      "s", "'", " ", "ru:p", "ru:u", "ru:s", "ru:t">>
\* msgVideo: the text 'Видео #'
msgVideo ==
    <<"RU:V", "ru:i", "ru:d", "ru:e", "ru:o", " ", "#">>
\* msgVideoNotObject: the text ' должно быть объектом, а не '
msgVideoNotObject ==
    <<" ", "ru:d", "ru:o", "ru:l", "ru:zh", "ru:n", "ru:o", " ", "ru:b", "ru:y", "ru:t",
      "ru:soft", " ", "ru:o", "ru:b", "ru:hard", "ru:e", "ru:k", "ru:t", "ru:o", "ru:m",
      ",", " ", "ru:a", " ", "ru:n", "ru:e", " ">>
\* msgVideoNoId: the text " не содержит обязательное поле 'id'"
msgVideoNoId ==
    <<" ", "ru:n", "ru:e", " ", "ru:s", "ru:o", "ru:d", "ru:e", "ru:r", "ru:zh", "ru:i",
      "ru:t", " ", "ru:o", "ru:b", "ru:ya", "ru:z", "ru:a", "ru:t", "ru:e", "ru:l",
      "ru:soft", "ru:n", "ru:o", "ru:e", " ", "ru:p", "ru:o", "ru:l", "ru:e", " ", "'",
      "i", "d", "'">>
\* msgIdOfVideo: the text "Поле 'id' видео #"
msgIdOfVideo ==
    <<"RU:P", "ru:o", "ru:l", "ru:e", " ", "'", "i", "d", "'", " ", "ru:v", "ru:i", "ru:d",
      "ru:e", "ru:o", " ", "#">>
\* msgIdNotString: the text ' должно быть строкой, получен '
msgIdNotString ==
    <<" ", "ru:d", "ru:o", "ru:l", "ru:zh", "ru:n", "ru:o", " ", "ru:b", "ru:y", "ru:t",
      "ru:soft", " ", "ru:s", "ru:t", "ru:r", "ru:o", "ru:k", "ru:o", "ru:j", ",", " ",
      "ru:p", "ru:o", "ru:l", "ru:u", "ru:ch", "ru:e", "ru:n", " ">>
\* msgIdNotUuid: the text ' не соответствует формату UUID. Ожидается формат: xxxxxxxx-xxxx-xxxx-xxxx-xxxxxxxxxxxx, получено: '
msgIdNotUuid ==
    <<" ", "ru:n", "ru:e", " ", "ru:s", "ru:o", "ru:o", "ru:t", "ru:v", "ru:e", "ru:t",
      "ru:s", "ru:t", "ru:v", "ru:u", "ru:e", "ru:t", " ", "ru:f", "ru:o", "ru:r", "ru:m",
      "ru:a", "ru:t", "ru:u", " ", "U", "U", "I", "D", ".", " ", "RU:O", "ru:zh", "ru:i",
      "ru:d", "ru:a", "ru:e", "ru:t", "ru:s", "ru:ya", " ", "ru:f", "ru:o", "ru:r", "ru:m",
      "ru:a", "ru:t", ":", " ", "x", "x", "x", "x", "x", "x", "x", "x", "-", "x", "x", "x",
      "x", "-", "x", "x", "x", "x", "-", "x", "x", "x", "x", "-", "x", "x", "x", "x", "x",
      "x", "x", "x", "x", "x", "x", "x", ",", " ", "ru:p", "ru:o", "ru:l", "ru:u", "ru:ch",
      "ru:e", "ru:n", "ru:o", ":", " ">>
\* msgVideoNoCreator: the text " не содержит обязательное поле 'creator_id'"
msgVideoNoCreator ==
    <<" ", "ru:n", "ru:e", " ", "ru:s", "ru:o", "ru:d", "ru:e", "ru:r", "ru:zh", "ru:i",
      "ru:t", " ", "ru:o", "ru:b", "ru:ya", "ru:z", "ru:a", "ru:t", "ru:e", "ru:l",
      "ru:soft", "ru:n", "ru:o", "ru:e", " ", "ru:p", "ru:o", "ru:l", "ru:e", " ", "'",
      "c", "r", "e", "a", "t", "o", "r", "_", "i", "d", "'">>
\* msgSnapshotsOfVideo: the text "Поле 'snapshots' видео #"
msgSnapshotsOfVideo ==
    <<"RU:P", "ru:o", "ru:l", "ru:e", " ", "'", "s", "n", "a", "p", "s", "h", "o", "t",
      "s", "'", " ", "ru:v", "ru:i", "ru:d", "ru:e", "ru:o", " ", "#">>
\* msgMustBeArray: the text ' должно быть массивом'
msgMustBeArray ==
    <<" ", "ru:d", "ru:o", "ru:l", "ru:zh", "ru:n", "ru:o", " ", "ru:b", "ru:y", "ru:t",
      "ru:soft", " ", "ru:m", "ru:a", "ru:s", "ru:s", "ru:i", "ru:v", "ru:o", "ru:m">>
\* msgSnapshot: the text 'Снапшот #'
msgSnapshot ==
    <<"RU:S", "ru:n", "ru:a", "ru:p", "ru:sh", "ru:o", "ru:t", " ", "#">>
\* msgOfVideo: the text ' видео #'
msgOfVideo ==
    <<" ", "ru:v", "ru:i", "ru:d", "ru:e", "ru:o", " ", "#">>
\* msgSnapshotNotObject: the text ' должен быть объектом, а не '
msgSnapshotNotObject ==
    <<" ", "ru:d", "ru:o", "ru:l", "ru:zh", "ru:e", "ru:n", " ", "ru:b", "ru:y", "ru:t",
      "ru:soft", " ", "ru:o", "ru:b", "ru:hard", "ru:e", "ru:k", "ru:t", "ru:o", "ru:m",
      ",", " ", "ru:a", " ", "ru:n", "ru:e", " ">>
\* msgSnapshotNoVideoId: the text " не содержит обязательное поле 'video_id'"
msgSnapshotNoVideoId ==
    <<" ", "ru:n", "ru:e", " ", "ru:s", "ru:o", "ru:d", "ru:e", "ru:r", "ru:zh", "ru:i",
      "ru:t", " ", "ru:o", "ru:b", "ru:ya", "ru:z", "ru:a", "ru:t", "ru:e", "ru:l",
      "ru:soft", "ru:n", "ru:o", "ru:e", " ", "ru:p", "ru:o", "ru:l", "ru:e", " ", "'",
      "v", "i", "d", "e", "o", "_", "i", "d", "'">>
\* msgSnapshotMismatch: the text " имеет несоответствующий video_id: ожидается '"
msgSnapshotMismatch ==
    <<" ", "ru:i", "ru:m", "ru:e", "ru:e", "ru:t", " ", "ru:n", "ru:e", "ru:s", "ru:o",
      "ru:o", "ru:t", "ru:v", "ru:e", "ru:t", "ru:s", "ru:t", "ru:v", "ru:u", "ru:yu",
      "ru:sch", "ru:i", "ru:j", " ", "v", "i", "d", "e", "o", "_", "i", "d", ":", " ",
      "ru:o", "ru:zh", "ru:i", "ru:d", "ru:a", "ru:e", "ru:t", "ru:s", "ru:ya", " ", "'">>
\* msgSnapshotGot: the text "', получено '"
msgSnapshotGot ==
    <<"'", ",", " ", "ru:p", "ru:o", "ru:l", "ru:u", "ru:ch", "ru:e", "ru:n", "ru:o", " ",
      "'">>
\* msgQuote: the text "'"
msgQuote ==
    <<"'">>
\* msgSnapshotNoCreatedAt: the text " не содержит обязательное поле 'created_at'"
msgSnapshotNoCreatedAt ==
    <<" ", "ru:n", "ru:e", " ", "ru:s", "ru:o", "ru:d", "ru:e", "ru:r", "ru:zh", "ru:i",
      "ru:t", " ", "ru:o", "ru:b", "ru:ya", "ru:z", "ru:a", "ru:t", "ru:e", "ru:l",
      "ru:soft", "ru:n", "ru:o", "ru:e", " ", "ru:p", "ru:o", "ru:l", "ru:e", " ", "'",
      "c", "r", "e", "a", "t", "e", "d", "_", "a", "t", "'">>

\* str(idx + 1) for a 0-based index
number_of(idx) == decimal_digits(nat(idx + 1))

rejected(message) == [valid |-> FALSE, error_message |-> message]

accepted == [valid |-> TRUE]

\* the loop over the snapshots of video idx from snapshot snap_idx on (0-based)
RECURSIVE validate_snapshots(_, _, _, _)
validate_snapshots(snapshots, snap_idx, idx, video_id) ==
    LET snapshot == snapshots[snap_idx + 1]
        where == msgSnapshot \o number_of(snap_idx) \o msgOfVideo \o number_of(idx)
    IN  IF snap_idx >= Len(snapshots) THEN accepted
        ELSE IF snapshot.type # "dict"
        THEN rejected(where \o msgSnapshotNotObject \o type_name(snapshot))
        ELSE IF ~has_key(snapshot, "video_id")
        THEN rejected(where \o msgSnapshotNoVideoId)
        ELSE IF snapshot.fields.video_id # py_str(video_id)
        THEN rejected(where \o msgSnapshotMismatch \o video_id \o msgSnapshotGot
                          \o format_value(snapshot.fields.video_id) \o msgQuote)
        ELSE IF ~has_key(snapshot, "created_at")
        THEN rejected(where \o msgSnapshotNoCreatedAt)
        ELSE validate_snapshots(snapshots, snap_idx + 1, idx, video_id)

\* the loop over the videos from video idx on (0-based)
RECURSIVE validate_videos(_, _)
validate_videos(videos, idx) ==
    LET video == videos[idx + 1]
        video_id == video.fields.id
        snapshots == video.fields.snapshots
        checked == validate_snapshots(snapshots.items, 0, idx, video_id.text)
    IN  IF idx >= Len(videos) THEN accepted
        ELSE IF video.type # "dict"
        THEN rejected(msgVideo \o number_of(idx) \o msgVideoNotObject \o type_name(video))
        ELSE IF ~has_key(video, "id")
        THEN rejected(msgVideo \o number_of(idx) \o msgVideoNoId)
        ELSE IF video_id.type # "str"
        THEN rejected(msgIdOfVideo \o number_of(idx) \o msgIdNotString \o type_name(video_id))
        ELSE IF ~uuid_pattern_match(video_id.text)
        THEN rejected(msgIdOfVideo \o number_of(idx) \o msgIdNotUuid
                          \o slice(video_id.text, 0, 50))
        ELSE IF ~has_key(video, "creator_id")
        THEN rejected(msgVideo \o number_of(idx) \o msgVideoNoCreator)
        ELSE IF has_key(video, "snapshots") /\ snapshots.type # "list"
        THEN rejected(msgSnapshotsOfVideo \o number_of(idx) \o msgMustBeArray)
        ELSE IF has_key(video, "snapshots") /\ ~checked.valid THEN checked
        ELSE validate_videos(videos, idx + 1)

_validate_data_structure(data) ==
    IF data.type # "dict" THEN rejected(msgNotObject)
    ELSE IF ~has_key(data, "videos") THEN rejected(msgNoVideosKey)
    ELSE IF data.fields.videos.type # "list" THEN rejected(msgVideosNotArray)
    ELSE IF data.fields.videos.items = <<>> THEN rejected(msgVideosEmpty)
    ELSE validate_videos(data.fields.videos.items, 0)


-----------------------------------------------------------------------------
(* Sample of a large document: FileAnalyzer._select_sample_videos          *)

\* v in selected: equality of values
is_in(v, selected) == \E i \in DOMAIN selected : selected[i] = v

\* seq[:n]
take(seq, n) == SubSeq(seq, 1, IF n < Len(seq) THEN n ELSE Len(seq))

\* 'snapshots' in v and isinstance(v.get('snapshots'), list)
has_snapshots(v) == has_key(v, "snapshots") /\ v.fields.snapshots.type = "list"

\* len(v.get('snapshots', []))
snapshots_len(v) == IF has_key(v, "snapshots") THEN Len(v.fields.snapshots.items) ELSE 0

\* the whole number an int holds
int_value(x) ==
    LET m == x.mag.hi * Limb + x.mag.lo IN IF x.neg THEN 0 - m ELSE m

\* x.get('views_count', 0)
views_count(v) == IF has_key(v, "views_count") THEN int_value(v.fields.views_count) ELSE 0

\* v.get('video_created_at', '')[:10]
date_key(v) == slice(v.fields.video_created_at.text, 0, 10)

\* step 2: the video after the first that holds the longest list of
\* snapshots, the earliest of them (the sort is stable), unless selected holds it
with_best_snapshots(videos, selected) ==
    LET videos_with_snapshots == {i \in 2..Len(videos) : has_snapshots(videos[i])}
        longest == {i \in videos_with_snapshots :
                       \A j \in videos_with_snapshots :
                           snapshots_len(videos[j]) <= snapshots_len(videos[i])}
        best == videos[CHOOSE i \in longest : \A j \in longest : i <= j]
    IN  IF videos_with_snapshots = {} \/ is_in(best, selected) THEN selected
        ELSE Append(selected, best)

\* step 3: of the videos that selected lacks and that carry a date, the first
\* of every date, in the order the dates come up, until selected is full
with_dates(videos, selected, max_samples) ==
    LET dated == {i \in DOMAIN videos :
                     ~is_in(videos[i], selected) /\ has_key(videos[i], "video_created_at")}
        firsts == {i \in dated :
                      \A j \in dated : j < i => date_key(videos[j]) # date_key(videos[i])}
        date_videos == SelectSeq([i \in DOMAIN videos |-> i], LAMBDA i : i \in firsts)
    IN  selected \o take([k \in DOMAIN date_videos |-> videos[date_videos[k]]],
                         max_samples - Len(selected))

\* sorted(rest, key=views_count): ascending, equal keys in their own order
sorted_by_views(rest) ==
    LET before(i, j) ==
            \/ views_count(rest[i]) < views_count(rest[j])
            \/ views_count(rest[i]) = views_count(rest[j]) /\ i < j
        place(i) == 1 + Cardinality({j \in DOMAIN rest : before(j, i)})
    IN  [k \in DOMAIN rest |-> rest[CHOOSE i \in DOMAIN rest : place(i) = k]]

\* step 4: of the videos that selected lacks, sorted by views, the first, the
\* middle and the last one, until selected is full
with_views(videos, selected, max_samples) ==
    LET rest == sorted_by_views(SelectSeq(videos, LAMBDA v : ~is_in(v, selected)))
        indices == <<0, Len(rest) \div 2, Len(rest) - 1>>
        picked == [k \in DOMAIN indices |-> rest[indices[k] + 1]]
    IN  IF rest = <<>> THEN selected
        ELSE selected \o take(picked, max_samples - Len(selected))

RECURSIVE with_first_available(_, _, _)
\* step 5: the videos that selected lacks, in their order, until it is full
with_first_available(videos, selected, max_samples) ==
    IF videos = <<>> \/ Len(selected) >= max_samples THEN selected
    ELSE with_first_available(
             Tail(videos),
             IF is_in(Head(videos), selected) THEN selected ELSE Append(selected, Head(videos)),
             max_samples)

\* a step of the selection, taken while selected is not full
while_short(selected, max_samples, step) ==
    IF Len(selected) < max_samples THEN step ELSE selected

_select_sample_videos(videos, max_samples) ==
    IF Len(videos) <= max_samples THEN videos
    ELSE LET first == <<videos[1]>>
             second == while_short(first, max_samples, with_best_snapshots(videos, first))
             third == while_short(second, max_samples, with_dates(videos, second, max_samples))
             fourth == while_short(third, max_samples, with_views(videos, third, max_samples))
             fifth == while_short(fourth, max_samples,
                                  with_first_available(videos, fourth, max_samples))
         IN  take(fifth, max_samples)


-----------------------------------------------------------------------------
(* Context of a prompt: FileAnalyzer._summarize_data, _prepare_data_context *)

DefaultMaxSize == 100000

\* key_videos: the text 'videos'
key_videos ==
    <<"v", "i", "d", "e", "o", "s">>
\* key_video: the text 'video'
key_video ==
    <<"v", "i", "d", "e", "o">>
\* key_id: the text 'id'
key_id ==
    <<"i", "d">>
\* key_creator_id: the text 'creator_id'
key_creator_id ==
    <<"c", "r", "e", "a", "t", "o", "r", "_", "i", "d">>
\* key_video_created_at: the text 'video_created_at'
key_video_created_at ==
    <<"v", "i", "d", "e", "o", "_", "c", "r", "e", "a", "t", "e", "d", "_", "a", "t">>
\* key_views_count: the text 'views_count'
key_views_count ==
    <<"v", "i", "e", "w", "s", "_", "c", "o", "u", "n", "t">>
\* key_likes_count: the text 'likes_count'
key_likes_count ==
    <<"l", "i", "k", "e", "s", "_", "c", "o", "u", "n", "t">>
\* key_comments_count: the text 'comments_count'
key_comments_count ==
    <<"c", "o", "m", "m", "e", "n", "t", "s", "_", "c", "o", "u", "n", "t">>
\* key_reports_count: the text 'reports_count'
key_reports_count ==
    <<"r", "e", "p", "o", "r", "t", "s", "_", "c", "o", "u", "n", "t">>
\* key_delta_views_count: the text 'delta_views_count'
key_delta_views_count ==
    <<"d", "e", "l", "t", "a", "_", "v", "i", "e", "w", "s", "_", "c", "o", "u", "n", "t">>
\* key_delta_likes_count: the text 'delta_likes_count'
key_delta_likes_count ==
    <<"d", "e", "l", "t", "a", "_", "l", "i", "k", "e", "s", "_", "c", "o", "u", "n", "t">>
\* key_delta_comments_count: the text 'delta_comments_count'
key_delta_comments_count ==
    <<"d", "e", "l", "t", "a", "_", "c", "o", "m", "m", "e", "n", "t", "s", "_", "c", "o",
      "u", "n", "t">>
\* key_delta_reports_count: the text 'delta_reports_count'
key_delta_reports_count ==
    <<"d", "e", "l", "t", "a", "_", "r", "e", "p", "o", "r", "t", "s", "_", "c", "o", "u",
      "n", "t">>
\* key_created_at: the text 'created_at'
key_created_at ==
    <<"c", "r", "e", "a", "t", "e", "d", "_", "a", "t">>
\* key_updated_at: the text 'updated_at'
key_updated_at ==
    <<"u", "p", "d", "a", "t", "e", "d", "_", "a", "t">>
\* key_video_id: the text 'video_id'
key_video_id ==
    <<"v", "i", "d", "e", "o", "_", "i", "d">>
\* key_snapshots: the text 'snapshots'
key_snapshots ==
    <<"s", "n", "a", "p", "s", "h", "o", "t", "s">>

\* the members an object of a document is written with, in the order the file
\* holds them, each with the text of its key
Members ==
    <<[key |-> "videos", text |-> key_videos],
      [key |-> "video", text |-> key_video],
      [key |-> "id", text |-> key_id],
      [key |-> "video_id", text |-> key_video_id],
      [key |-> "creator_id", text |-> key_creator_id],
      [key |-> "video_created_at", text |-> key_video_created_at],
      [key |-> "views_count", text |-> key_views_count],
      [key |-> "likes_count", text |-> key_likes_count],
      [key |-> "comments_count", text |-> key_comments_count],
      [key |-> "reports_count", text |-> key_reports_count],
      [key |-> "delta_views_count", text |-> key_delta_views_count],
      [key |-> "delta_likes_count", text |-> key_delta_likes_count],
      [key |-> "delta_comments_count", text |-> key_delta_comments_count],
      [key |-> "delta_reports_count", text |-> key_delta_reports_count],
      [key |-> "created_at", text |-> key_created_at],
      [key |-> "updated_at", text |-> key_updated_at],
      [key |-> "snapshots", text |-> key_snapshots]>>

\* a character of a string as json.dumps(ensure_ascii=False) writes it
json_char(c) ==
    CASE c = "\n" -> <<"\\", "n">>
      [] c = "\t" -> <<"\\", "t">>
      [] c = "\"" -> <<"\\", "\"">>
      [] c = "\\" -> <<"\\", "\\">>
      [] OTHER -> <<c>>

RECURSIVE json_string(_)
json_string(s) == IF s = <<>> THEN <<>> ELSE json_char(Head(s)) \o json_string(Tail(s))

\* the white space that opens a line at a depth, indent=2
indent_of(depth) == [i \in 1..(2 * depth) |-> " "]

\* json_null: the text 'null'
json_null ==
    <<"n", "u", "l", "l">>
\* json_true: the text 'true'
json_true ==
    <<"t", "r", "u", "e">>
\* json_false: the text 'false'
json_false ==
    <<"f", "a", "l", "s", "e">>

RECURSIVE json_dumps_at(_, _)
\* json.dumps(x, ensure_ascii=False, indent=2), x at a depth of the document
json_dumps_at(x, depth) ==
    LET lines(parts) ==
            join(<<",", "\n">>, [i \in DOMAIN parts |-> indent_of(depth + 1) \o parts[i]])
        block(open, parts, close) ==
            IF parts = <<>> THEN <<open, close>>
            ELSE <<open, "\n">> \o lines(parts) \o <<"\n">> \o indent_of(depth) \o <<close>>
    IN  CASE x.type = "dict" ->
                LET written == SelectSeq(Members, LAMBDA m : m.key \in DOMAIN x.fields)
                IN  block("{", [i \in DOMAIN written |->
                                   <<"\"">> \o written[i].text \o <<"\"", ":", " ">>
                                       \o json_dumps_at(x.fields[written[i].key], depth + 1)],
                          "}")
          [] x.type = "list" ->
                block("[", [i \in DOMAIN x.items |-> json_dumps_at(x.items[i], depth + 1)], "]")
          [] x.type = "str" -> <<"\"">> \o json_string(x.text) \o <<"\"">>
          [] x.type = "int" -> str_int(x.neg, x.mag)
          [] x.type = "bool" -> IF x.value THEN json_true ELSE json_false
          [] OTHER -> json_null

json_dumps(x) == json_dumps_at(x, 0)

\* word_NA: the text 'N/A'
word_NA ==
    <<"N", "/", "A">>

\* the text an f-string writes for obj.get(key, 'N/A')
get_text(obj, key) == IF has_key(obj, key) THEN format_value(obj.fields[key]) ELSE word_NA

\* str(n) of a whole number
str_of(n) == IF n < 0 THEN str_int(TRUE, nat(0 - n)) ELSE str_int(FALSE, nat(n))

RECURSIVE grouped(_)
\* digits in groups of three from the right, one space between two groups
grouped(digits) ==
    IF Len(digits) <= 3 THEN digits
    ELSE grouped(SubSeq(digits, 1, Len(digits) - 3)) \o <<" ">>
             \o SubSeq(digits, Len(digits) - 2, Len(digits))

\* f"{n:,}".replace(',', ' ') of a whole number that is not negative
thousands(n) == grouped(str_of(n))

\* f"{total / count:.1f}": the quotient to one decimal, a tie to the even digit
one_decimal(total, count) ==
    LET tenths == (10 * total) \div count
        rest == (10 * total) % count
        rounded == IF 2 * rest > count \/ (2 * rest = count /\ tenths % 2 = 1)
                   THEN tenths + 1 ELSE tenths
    IN  str_of(rounded \div 10) \o <<".">> \o str_of(rounded % 10)

RECURSIVE sum_of(_, _)
\* sum(v.get(key, 0) for v in videos_list)
sum_of(videos_list, key) ==
    IF videos_list = <<>> THEN 0
    ELSE (IF has_key(Head(videos_list), key)
          THEN int_value(Head(videos_list).fields[key]) ELSE 0)
         + sum_of(Tail(videos_list), key)

RECURSIVE total_len(_)
\* the lengths of the lists of snapshots of videos, added up
total_len(videos_list) ==
    IF videos_list = <<>> THEN 0
    ELSE snapshots_len(Head(videos_list)) + total_len(Tail(videos_list))

\* how many elements of a sequence satisfy a test
count_of(seq, test(_)) == Len(SelectSeq(seq, test))

\* sumFileHolds: the text 'Файл содержит '
sumFileHolds ==
    <<"RU:F", "ru:a", "ru:j", "ru:l", " ", "ru:s", "ru:o", "ru:d", "ru:e", "ru:r", "ru:zh",
      "ru:i", "ru:t", " ">>
\* sumVideosDot: the text ' видео.'
sumVideosDot ==
    <<" ", "ru:v", "ru:i", "ru:d", "ru:e", "ru:o", ".">>
\* sumVideoStructure: the text '\nСтруктура данных о видео:'
sumVideoStructure ==
    <<"\n", "RU:S", "ru:t", "ru:r", "ru:u", "ru:k", "ru:t", "ru:u", "ru:r", "ru:a", " ",
      "ru:d", "ru:a", "ru:n", "ru:n", "ru:y", "ru:h", " ", "ru:o", " ", "ru:v", "ru:i",
      "ru:d", "ru:e", "ru:o", ":">>
\* sumId: the text '- id: '
sumId ==
    <<"-", " ", "i", "d", ":", " ">>
\* sumIdNote: the text ' (UUID формат: строка из 32 шестнадцатеричных символов)'
sumIdNote ==
    <<" ", "(", "U", "U", "I", "D", " ", "ru:f", "ru:o", "ru:r", "ru:m", "ru:a", "ru:t",
      ":", " ", "ru:s", "ru:t", "ru:r", "ru:o", "ru:k", "ru:a", " ", "ru:i", "ru:z", " ",
      "3", "2", " ", "ru:sh", "ru:e", "ru:s", "ru:t", "ru:n", "ru:a", "ru:d", "ru:c",
      "ru:a", "ru:t", "ru:e", "ru:r", "ru:i", "ru:ch", "ru:n", "ru:y", "ru:h", " ", "ru:s",
      "ru:i", "ru:m", "ru:v", "ru:o", "ru:l", "ru:o", "ru:v", ")">>
\* sumCreatorId: the text '- creator_id: '
sumCreatorId ==
    <<"-", " ", "c", "r", "e", "a", "t", "o", "r", "_", "i", "d", ":", " ">>
\* sumVideoCreatedAt: the text '- video_created_at: '
sumVideoCreatedAt ==
    <<"-", " ", "v", "i", "d", "e", "o", "_", "c", "r", "e", "a", "t", "e", "d", "_", "a",
      "t", ":", " ">>
\* sumViewsCount: the text '- views_count: '
sumViewsCount ==
    <<"-", " ", "v", "i", "e", "w", "s", "_", "c", "o", "u", "n", "t", ":", " ">>
\* sumLikesCount: the text '- likes_count: '
sumLikesCount ==
    <<"-", " ", "l", "i", "k", "e", "s", "_", "c", "o", "u", "n", "t", ":", " ">>
\* sumCommentsCount: the text '- comments_count: '
sumCommentsCount ==
    <<"-", " ", "c", "o", "m", "m", "e", "n", "t", "s", "_", "c", "o", "u", "n", "t", ":",
      " ">>
\* sumReportsCount: the text '- reports_count: '
sumReportsCount ==
    <<"-", " ", "r", "e", "p", "o", "r", "t", "s", "_", "c", "o", "u", "n", "t", ":", " ">>
\* sumCreatedAt: the text '- created_at: '
sumCreatedAt ==
    <<"-", " ", "c", "r", "e", "a", "t", "e", "d", "_", "a", "t", ":", " ">>
\* sumCreatedNote: the text ' (дата создания записи)'
sumCreatedNote ==
    <<" ", "(", "ru:d", "ru:a", "ru:t", "ru:a", " ", "ru:s", "ru:o", "ru:z", "ru:d",
      "ru:a", "ru:n", "ru:i", "ru:ya", " ", "ru:z", "ru:a", "ru:p", "ru:i", "ru:s", "ru:i",
      ")">>
\* sumUpdatedAt: the text '- updated_at: '
sumUpdatedAt ==
    <<"-", " ", "u", "p", "d", "a", "t", "e", "d", "_", "a", "t", ":", " ">>
\* sumUpdatedNote: the text ' (дата обновления записи)'
sumUpdatedNote ==
    <<" ", "(", "ru:d", "ru:a", "ru:t", "ru:a", " ", "ru:o", "ru:b", "ru:n", "ru:o",
      "ru:v", "ru:l", "ru:e", "ru:n", "ru:i", "ru:ya", " ", "ru:z", "ru:a", "ru:p", "ru:i",
      "ru:s", "ru:i", ")">>
\* sumUuidOk: the text '  ✓ ID соответствует формату UUID'
sumUuidOk ==
    <<" ", " ", "check mark", " ", "I", "D", " ", "ru:s", "ru:o", "ru:o", "ru:t", "ru:v",
      "ru:e", "ru:t", "ru:s", "ru:t", "ru:v", "ru:u", "ru:e", "ru:t", " ", "ru:f", "ru:o",
      "ru:r", "ru:m", "ru:a", "ru:t", "ru:u", " ", "U", "U", "I", "D">>
\* sumUuidBad: the text '  ⚠ ID не соответствует стандартному формату UUID'
sumUuidBad ==
    <<" ", " ", "warning sign", " ", "I", "D", " ", "ru:n", "ru:e", " ", "ru:s", "ru:o",
      "ru:o", "ru:t", "ru:v", "ru:e", "ru:t", "ru:s", "ru:t", "ru:v", "ru:u", "ru:e",
      "ru:t", " ", "ru:s", "ru:t", "ru:a", "ru:n", "ru:d", "ru:a", "ru:r", "ru:t", "ru:n",
      "ru:o", "ru:m", "ru:u", " ", "ru:f", "ru:o", "ru:r", "ru:m", "ru:a", "ru:t", "ru:u",
      " ", "U", "U", "I", "D">>
\* sumFirstVideoHas: the text '\nУ первого видео '
sumFirstVideoHas ==
    <<"\n", "RU:U", " ", "ru:p", "ru:e", "ru:r", "ru:v", "ru:o", "ru:g", "ru:o", " ",
      "ru:v", "ru:i", "ru:d", "ru:e", "ru:o", " ">>
\* sumSnapshotsDot: the text ' снапшотов.'
sumSnapshotsDot ==
    <<" ", "ru:s", "ru:n", "ru:a", "ru:p", "ru:sh", "ru:o", "ru:t", "ru:o", "ru:v", ".">>
\* sumSnapshotStructure: the text '\nСтруктура снапшотов:'
sumSnapshotStructure ==
    <<"\n", "RU:S", "ru:t", "ru:r", "ru:u", "ru:k", "ru:t", "ru:u", "ru:r", "ru:a", " ",
      "ru:s", "ru:n", "ru:a", "ru:p", "ru:sh", "ru:o", "ru:t", "ru:o", "ru:v", ":">>
\* sumVideoId: the text '- video_id: '
sumVideoId ==
    <<"-", " ", "v", "i", "d", "e", "o", "_", "i", "d", ":", " ">>
\* sumVideoIdNote: the text ' (UUID, должен совпадать с id видео)'
sumVideoIdNote ==
    <<" ", "(", "U", "U", "I", "D", ",", " ", "ru:d", "ru:o", "ru:l", "ru:zh", "ru:e",
      "ru:n", " ", "ru:s", "ru:o", "ru:v", "ru:p", "ru:a", "ru:d", "ru:a", "ru:t",
      "ru:soft", " ", "ru:s", " ", "i", "d", " ", "ru:v", "ru:i", "ru:d", "ru:e", "ru:o",
      ")">>
\* sumDeltaViews: the text '- delta_views_count: '
sumDeltaViews ==
    <<"-", " ", "d", "e", "l", "t", "a", "_", "v", "i", "e", "w", "s", "_", "c", "o", "u",
      "n", "t", ":", " ">>
\* sumDeltaViewsNote: the text ' (приращение просмотров)'
sumDeltaViewsNote ==
    <<" ", "(", "ru:p", "ru:r", "ru:i", "ru:r", "ru:a", "ru:sch", "ru:e", "ru:n", "ru:i",
      "ru:e", " ", "ru:p", "ru:r", "ru:o", "ru:s", "ru:m", "ru:o", "ru:t", "ru:r", "ru:o",
      "ru:v", ")">>
\* sumDeltaLikes: the text '- delta_likes_count: '
sumDeltaLikes ==
    <<"-", " ", "d", "e", "l", "t", "a", "_", "l", "i", "k", "e", "s", "_", "c", "o", "u",
      "n", "t", ":", " ">>
\* sumDeltaLikesNote: the text ' (приращение лайков)'
sumDeltaLikesNote ==
    <<" ", "(", "ru:p", "ru:r", "ru:i", "ru:r", "ru:a", "ru:sch", "ru:e", "ru:n", "ru:i",
      "ru:e", " ", "ru:l", "ru:a", "ru:j", "ru:k", "ru:o", "ru:v", ")">>
\* sumDeltaComments: the text '- delta_comments_count: '
sumDeltaComments ==
    <<"-", " ", "d", "e", "l", "t", "a", "_", "c", "o", "m", "m", "e", "n", "t", "s", "_",
      "c", "o", "u", "n", "t", ":", " ">>
\* sumDeltaCommentsNote: the text ' (приращение комментариев)'
sumDeltaCommentsNote ==
    <<" ", "(", "ru:p", "ru:r", "ru:i", "ru:r", "ru:a", "ru:sch", "ru:e", "ru:n", "ru:i",
      "ru:e", " ", "ru:k", "ru:o", "ru:m", "ru:m", "ru:e", "ru:n", "ru:t", "ru:a", "ru:r",
      "ru:i", "ru:e", "ru:v", ")">>
\* sumDeltaReports: the text '- delta_reports_count: '
sumDeltaReports ==
    <<"-", " ", "d", "e", "l", "t", "a", "_", "r", "e", "p", "o", "r", "t", "s", "_", "c",
      "o", "u", "n", "t", ":", " ">>
\* sumDeltaReportsNote: the text ' (приращение жалоб)'
sumDeltaReportsNote ==
    <<" ", "(", "ru:p", "ru:r", "ru:i", "ru:r", "ru:a", "ru:sch", "ru:e", "ru:n", "ru:i",
      "ru:e", " ", "ru:zh", "ru:a", "ru:l", "ru:o", "ru:b", ")">>
\* sumSnapshotCreatedNote: the text ' (время создания снапшота)'
sumSnapshotCreatedNote ==
    <<" ", "(", "ru:v", "ru:r", "ru:e", "ru:m", "ru:ya", " ", "ru:s", "ru:o", "ru:z",
      "ru:d", "ru:a", "ru:n", "ru:i", "ru:ya", " ", "ru:s", "ru:n", "ru:a", "ru:p",
      "ru:sh", "ru:o", "ru:t", "ru:a", ")">>
\* sumSnapshotUpdatedNote: the text ' (время обновления снапшота)'
sumSnapshotUpdatedNote ==
    <<" ", "(", "ru:v", "ru:r", "ru:e", "ru:m", "ru:ya", " ", "ru:o", "ru:b", "ru:n",
      "ru:o", "ru:v", "ru:l", "ru:e", "ru:n", "ru:i", "ru:ya", " ", "ru:s", "ru:n", "ru:a",
      "ru:p", "ru:sh", "ru:o", "ru:t", "ru:a", ")">>
\* sumStatistics: the text '\nОбщая статистика:'
sumStatistics ==
    <<"\n", "RU:O", "ru:b", "ru:sch", "ru:a", "ru:ya", " ", "ru:s", "ru:t", "ru:a", "ru:t",
      "ru:i", "ru:s", "ru:t", "ru:i", "ru:k", "ru:a", ":">>
\* sumTotalVideos: the text '- Всего видео: '
sumTotalVideos ==
    <<"-", " ", "RU:V", "ru:s", "ru:e", "ru:g", "ru:o", " ", "ru:v", "ru:i", "ru:d",
      "ru:e", "ru:o", ":", " ">>
\* sumValidUuids: the text '- Видео с валидным UUID: '
sumValidUuids ==
    <<"-", " ", "RU:V", "ru:i", "ru:d", "ru:e", "ru:o", " ", "ru:s", " ", "ru:v", "ru:a",
      "ru:l", "ru:i", "ru:d", "ru:n", "ru:y", "ru:m", " ", "U", "U", "I", "D", ":", " ">>
\* sumTotalViews: the text '- Сумма просмотров: '
sumTotalViews ==
    <<"-", " ", "RU:S", "ru:u", "ru:m", "ru:m", "ru:a", " ", "ru:p", "ru:r", "ru:o",
      "ru:s", "ru:m", "ru:o", "ru:t", "ru:r", "ru:o", "ru:v", ":", " ">>
\* sumTotalLikes: the text '- Сумма лайков: '
sumTotalLikes ==
    <<"-", " ", "RU:S", "ru:u", "ru:m", "ru:m", "ru:a", " ", "ru:l", "ru:a", "ru:j",
      "ru:k", "ru:o", "ru:v", ":", " ">>
\* sumTotalComments: the text '- Сумма комментариев: '
sumTotalComments ==
    <<"-", " ", "RU:S", "ru:u", "ru:m", "ru:m", "ru:a", " ", "ru:k", "ru:o", "ru:m",
      "ru:m", "ru:e", "ru:n", "ru:t", "ru:a", "ru:r", "ru:i", "ru:e", "ru:v", ":", " ">>
\* sumTotalReports: the text '- Сумма жалоб: '
sumTotalReports ==
    <<"-", " ", "RU:S", "ru:u", "ru:m", "ru:m", "ru:a", " ", "ru:zh", "ru:a", "ru:l",
      "ru:o", "ru:b", ":", " ">>
\* sumTotalSnapshots: the text '- Всего снапшотов: '
sumTotalSnapshots ==
    <<"-", " ", "RU:V", "ru:s", "ru:e", "ru:g", "ru:o", " ", "ru:s", "ru:n", "ru:a",
      "ru:p", "ru:sh", "ru:o", "ru:t", "ru:o", "ru:v", ":", " ">>
\* sumWithSnapshots: the text '- Видео со снапшотами: '
sumWithSnapshots ==
    <<"-", " ", "RU:V", "ru:i", "ru:d", "ru:e", "ru:o", " ", "ru:s", "ru:o", " ", "ru:s",
      "ru:n", "ru:a", "ru:p", "ru:sh", "ru:o", "ru:t", "ru:a", "ru:m", "ru:i", ":", " ">>
\* sumAverage: the text '- Среднее количество снапшотов на видео: '
sumAverage ==
    <<"-", " ", "RU:S", "ru:r", "ru:e", "ru:d", "ru:n", "ru:e", "ru:e", " ", "ru:k",
      "ru:o", "ru:l", "ru:i", "ru:ch", "ru:e", "ru:s", "ru:t", "ru:v", "ru:o", " ", "ru:s",
      "ru:n", "ru:a", "ru:p", "ru:sh", "ru:o", "ru:t", "ru:o", "ru:v", " ", "ru:n", "ru:a",
      " ", "ru:v", "ru:i", "ru:d", "ru:e", "ru:o", ":", " ">>

\* 'videos' in data and isinstance(data['videos'], list)
has_videos(data) == has_key(data, "videos") /\ data.fields.videos.type = "list"

\* the lines on the first snapshot of the first video
snapshot_lines(first_snapshot) ==
    <<sumSnapshotStructure,
      sumId \o get_text(first_snapshot, "id"),
      sumVideoId \o get_text(first_snapshot, "video_id") \o sumVideoIdNote,
      sumViewsCount \o get_text(first_snapshot, "views_count"),
      sumLikesCount \o get_text(first_snapshot, "likes_count"),
      sumCommentsCount \o get_text(first_snapshot, "comments_count"),
      sumReportsCount \o get_text(first_snapshot, "reports_count"),
      sumDeltaViews \o get_text(first_snapshot, "delta_views_count") \o sumDeltaViewsNote,
      sumDeltaLikes \o get_text(first_snapshot, "delta_likes_count") \o sumDeltaLikesNote,
      sumDeltaComments \o get_text(first_snapshot, "delta_comments_count")
          \o sumDeltaCommentsNote,
      sumDeltaReports \o get_text(first_snapshot, "delta_reports_count")
          \o sumDeltaReportsNote,
      sumCreatedAt \o get_text(first_snapshot, "created_at") \o sumSnapshotCreatedNote,
      sumUpdatedAt \o get_text(first_snapshot, "updated_at") \o sumSnapshotUpdatedNote>>

\* the lines on the first video of the document
video_lines(first_video) ==
    LET first_video_id ==
            IF has_key(first_video, "id") THEN first_video.fields.id ELSE py_str(word_NA)
        snapshots_count == Len(first_video.fields.snapshots.items)
    IN  <<sumVideoStructure,
          sumId \o get_text(first_video, "id") \o sumIdNote,
          sumCreatorId \o get_text(first_video, "creator_id"),
          sumVideoCreatedAt \o get_text(first_video, "video_created_at"),
          sumViewsCount \o get_text(first_video, "views_count"),
          sumLikesCount \o get_text(first_video, "likes_count"),
          sumCommentsCount \o get_text(first_video, "comments_count"),
          sumReportsCount \o get_text(first_video, "reports_count")>>
        \o (IF has_key(first_video, "created_at")
            THEN <<sumCreatedAt \o get_text(first_video, "created_at") \o sumCreatedNote>>
            ELSE <<>>)
        \o (IF has_key(first_video, "updated_at")
            THEN <<sumUpdatedAt \o get_text(first_video, "updated_at") \o sumUpdatedNote>>
            ELSE <<>>)
        \o (IF first_video_id.type # "str" THEN <<>>
            ELSE IF uuid_pattern_match(first_video_id.text) THEN <<sumUuidOk>>
            ELSE <<sumUuidBad>>)
        \o (IF ~has_snapshots(first_video) THEN <<>>
            ELSE <<sumFirstVideoHas \o str_of(snapshots_count) \o sumSnapshotsDot>>
                 \o (IF snapshots_count > 0
                     THEN snapshot_lines(first_video.fields.snapshots.items[1])
                     ELSE <<>>))

\* the lines of the statistics over all videos
statistics_lines(videos_list) ==
    LET with_list == SelectSeq(videos_list, has_snapshots)
        total_snapshots == total_len(with_list)
        videos_with_snapshots == count_of(with_list, LAMBDA v : snapshots_len(v) > 0)
        valid_uuids ==
            count_of(videos_list,
                     LAMBDA v : /\ has_key(v, "id")
                                /\ v.fields.id.type = "str"
                                /\ uuid_pattern_match(v.fields.id.text))
        count == str_of(Len(videos_list))
    IN  <<sumTotalVideos \o count,
          sumValidUuids \o str_of(valid_uuids) \o <<"/">> \o count,
          sumTotalViews \o thousands(sum_of(videos_list, "views_count")),
          sumTotalLikes \o thousands(sum_of(videos_list, "likes_count")),
          sumTotalComments \o thousands(sum_of(videos_list, "comments_count")),
          sumTotalReports \o thousands(sum_of(videos_list, "reports_count")),
          sumTotalSnapshots \o str_of(total_snapshots),
          sumWithSnapshots \o str_of(videos_with_snapshots) \o <<"/">> \o count>>
        \o (IF videos_with_snapshots > 0
            THEN <<sumAverage \o one_decimal(total_snapshots, videos_with_snapshots)>>
            ELSE <<>>)

_summarize_data(data) ==
    IF data.type # "dict" THEN <<>>
    ELSE LET videos_list == data.fields.videos.items
             summary_parts ==
                 (IF ~has_videos(data) THEN <<>>
                  ELSE <<sumFileHolds \o str_of(Len(videos_list)) \o sumVideosDot>>
                       \o (IF Len(videos_list) > 0 THEN video_lines(videos_list[1])
                           ELSE <<>>))
                 \o <<sumStatistics>>
                 \o (IF has_videos(data) THEN statistics_lines(videos_list) ELSE <<>>)
         IN  join(<<"\n">>, summary_parts)

\* sumExamples: the text '\n\nПримеры данных (выбрано '
sumExamples ==
    <<"\n", "\n", "RU:P", "ru:r", "ru:i", "ru:m", "ru:e", "ru:r", "ru:y", " ", "ru:d",
      "ru:a", "ru:n", "ru:n", "ru:y", "ru:h", " ", "(", "ru:v", "ru:y", "ru:b", "ru:r",
      "ru:a", "ru:n", "ru:o", " ">>
\* sumExamplesEnd: the text ' репрезентативных видео):\n'
sumExamplesEnd ==
    <<" ", "ru:r", "ru:e", "ru:p", "ru:r", "ru:e", "ru:z", "ru:e", "ru:n", "ru:t", "ru:a",
      "ru:t", "ru:i", "ru:v", "ru:n", "ru:y", "ru:h", " ", "ru:v", "ru:i", "ru:d", "ru:e",
      "ru:o", ")", ":", "\n">>

\* _prepare_data_context(data, max_size), max_size under the name size_limit
_prepare_data_context(data, size_limit) ==
    LET json_str == json_dumps(data)
        sample_videos == _select_sample_videos(data.fields.videos.items, 3)
    IN  IF Len(json_str) <= size_limit THEN json_str
        ELSE IF data.type = "dict" /\ has_videos(data)
        THEN _summarize_data(data) \o sumExamples \o str_of(Len(sample_videos))
                 \o sumExamplesEnd
                 \o json_dumps(json_object([videos |-> json_array(sample_videos)]))
        ELSE _summarize_data(data)


-----------------------------------------------------------------------------
(* Store path: VideoAnalytics.answer_question                              *)

\* msgUnsafe: the text 'Ошибка: небезопасный SQL запрос'
msgUnsafe ==
    <<"RU:O", "ru:sh", "ru:i", "ru:b", "ru:k", "ru:a", ":", " ", "ru:n", "ru:e", "ru:b",
      "ru:e", "ru:z", "ru:o", "ru:p", "ru:a", "ru:s", "ru:n", "ru:y", "ru:j", " ", "S",
      "Q", "L", " ", "ru:z", "ru:a", "ru:p", "ru:r", "ru:o", "ru:s">>
\* msgRephrase: the text 'Не удалось обработать ваш вопрос.\n\nПопробуйте переформулировать вопрос более конкретно, например:\n• Сколько всего видео в системе?\n• Сколько просмотров у всех видео?\n• Сколько видео набрало больше 100000 просмотров?'
msgRephrase ==
    <<"RU:N", "ru:e", " ", "ru:u", "ru:d", "ru:a", "ru:l", "ru:o", "ru:s", "ru:soft", " ",
      "ru:o", "ru:b", "ru:r", "ru:a", "ru:b", "ru:o", "ru:t", "ru:a", "ru:t", "ru:soft",
      " ", "ru:v", "ru:a", "ru:sh", " ", "ru:v", "ru:o", "ru:p", "ru:r", "ru:o", "ru:s",
      ".", "\n", "\n", "RU:P", "ru:o", "ru:p", "ru:r", "ru:o", "ru:b", "ru:u", "ru:j",
      "ru:t", "ru:e", " ", "ru:p", "ru:e", "ru:r", "ru:e", "ru:f", "ru:o", "ru:r", "ru:m",
      "ru:u", "ru:l", "ru:i", "ru:r", "ru:o", "ru:v", "ru:a", "ru:t", "ru:soft", " ",
      "ru:v", "ru:o", "ru:p", "ru:r", "ru:o", "ru:s", " ", "ru:b", "ru:o", "ru:l", "ru:e",
      "ru:e", " ", "ru:k", "ru:o", "ru:n", "ru:k", "ru:r", "ru:e", "ru:t", "ru:n", "ru:o",
      ",", " ", "ru:n", "ru:a", "ru:p", "ru:r", "ru:i", "ru:m", "ru:e", "ru:r", ":", "\n",
      "bullet", " ", "RU:S", "ru:k", "ru:o", "ru:l", "ru:soft", "ru:k", "ru:o", " ",
      "ru:v", "ru:s", "ru:e", "ru:g", "ru:o", " ", "ru:v", "ru:i", "ru:d", "ru:e", "ru:o",
      " ", "ru:v", " ", "ru:s", "ru:i", "ru:s", "ru:t", "ru:e", "ru:m", "ru:e", "?", "\n",
      "bullet", " ", "RU:S", "ru:k", "ru:o", "ru:l", "ru:soft", "ru:k", "ru:o", " ",
      "ru:p", "ru:r", "ru:o", "ru:s", "ru:m", "ru:o", "ru:t", "ru:r", "ru:o", "ru:v", " ",
      "ru:u", " ", "ru:v", "ru:s", "ru:e", "ru:h", " ", "ru:v", "ru:i", "ru:d", "ru:e",
      "ru:o", "?", "\n", "bullet", " ", "RU:S", "ru:k", "ru:o", "ru:l", "ru:soft", "ru:k",
      "ru:o", " ", "ru:v", "ru:i", "ru:d", "ru:e", "ru:o", " ", "ru:n", "ru:a", "ru:b",
      "ru:r", "ru:a", "ru:l", "ru:o", " ", "ru:b", "ru:o", "ru:l", "ru:soft", "ru:sh",
      "ru:e", " ", "1", "0", "0", "0", "0", "0", " ", "ru:p", "ru:r", "ru:o", "ru:s",
      "ru:m", "ru:o", "ru:t", "ru:r", "ru:o", "ru:v", "?">>
\* msgConnection: the text 'Ошибка подключения к базе данных или API.\n\nПожалуйста, обратитесь к администратору.'
msgConnection ==
    <<"RU:O", "ru:sh", "ru:i", "ru:b", "ru:k", "ru:a", " ", "ru:p", "ru:o", "ru:d", "ru:k",
      "ru:l", "ru:yu", "ru:ch", "ru:e", "ru:n", "ru:i", "ru:ya", " ", "ru:k", " ", "ru:b",
      "ru:a", "ru:z", "ru:e", " ", "ru:d", "ru:a", "ru:n", "ru:n", "ru:y", "ru:h", " ",
      "ru:i", "ru:l", "ru:i", " ", "A", "P", "I", ".", "\n", "\n", "RU:P", "ru:o", "ru:zh",
      "ru:a", "ru:l", "ru:u", "ru:j", "ru:s", "ru:t", "ru:a", ",", " ", "ru:o", "ru:b",
      "ru:r", "ru:a", "ru:t", "ru:i", "ru:t", "ru:e", "ru:s", "ru:soft", " ", "ru:k", " ",
      "ru:a", "ru:d", "ru:m", "ru:i", "ru:n", "ru:i", "ru:s", "ru:t", "ru:r", "ru:a",
      "ru:t", "ru:o", "ru:r", "ru:u", ".">>
\* msgApi: the text 'Ошибка при обращении к API.\n\nПопробуйте позже или обратитесь к администратору.'
msgApi ==
    <<"RU:O", "ru:sh", "ru:i", "ru:b", "ru:k", "ru:a", " ", "ru:p", "ru:r", "ru:i", " ",
      "ru:o", "ru:b", "ru:r", "ru:a", "ru:sch", "ru:e", "ru:n", "ru:i", "ru:i", " ",
      "ru:k", " ", "A", "P", "I", ".", "\n", "\n", "RU:P", "ru:o", "ru:p", "ru:r", "ru:o",
      "ru:b", "ru:u", "ru:j", "ru:t", "ru:e", " ", "ru:p", "ru:o", "ru:z", "ru:zh", "ru:e",
      " ", "ru:i", "ru:l", "ru:i", " ", "ru:o", "ru:b", "ru:r", "ru:a", "ru:t", "ru:i",
      "ru:t", "ru:e", "ru:s", "ru:soft", " ", "ru:k", " ", "ru:a", "ru:d", "ru:m", "ru:i",
      "ru:n", "ru:i", "ru:s", "ru:t", "ru:r", "ru:a", "ru:t", "ru:o", "ru:r", "ru:u", ".">>
\* msgGeneral: the text 'Произошла ошибка при обработке вопроса.\n\nПопробуйте переформулировать вопрос или обратитесь к администратору.'
msgGeneral ==
    <<"RU:P", "ru:r", "ru:o", "ru:i", "ru:z", "ru:o", "ru:sh", "ru:l", "ru:a", " ", "ru:o",
      "ru:sh", "ru:i", "ru:b", "ru:k", "ru:a", " ", "ru:p", "ru:r", "ru:i", " ", "ru:o",
      "ru:b", "ru:r", "ru:a", "ru:b", "ru:o", "ru:t", "ru:k", "ru:e", " ", "ru:v", "ru:o",
      "ru:p", "ru:r", "ru:o", "ru:s", "ru:a", ".", "\n", "\n", "RU:P", "ru:o", "ru:p",
      "ru:r", "ru:o", "ru:b", "ru:u", "ru:j", "ru:t", "ru:e", " ", "ru:p", "ru:e", "ru:r",
      "ru:e", "ru:f", "ru:o", "ru:r", "ru:m", "ru:u", "ru:l", "ru:i", "ru:r", "ru:o",
      "ru:v", "ru:a", "ru:t", "ru:soft", " ", "ru:v", "ru:o", "ru:p", "ru:r", "ru:o",
      "ru:s", " ", "ru:i", "ru:l", "ru:i", " ", "ru:o", "ru:b", "ru:r", "ru:a", "ru:t",
      "ru:i", "ru:t", "ru:e", "ru:s", "ru:soft", " ", "ru:k", " ", "ru:a", "ru:d", "ru:m",
      "ru:i", "ru:n", "ru:i", "ru:s", "ru:t", "ru:r", "ru:a", "ru:t", "ru:o", "ru:r",
      "ru:u", ".">>
\* keySqlQuery: the text 'SQL запрос'
keySqlQuery ==
    <<"S", "Q", "L", " ", "ru:z", "ru:a", "ru:p", "ru:r", "ru:o", "ru:s">>
\* keySql: the text 'SQL'
keySql ==
    <<"S", "Q", "L">>
\* keyConnect: the text 'подключ'
keyConnect ==
    <<"ru:p", "ru:o", "ru:d", "ru:k", "ru:l", "ru:yu", "ru:ch">>
\* keyConnection: the text 'connection'
keyConnection ==
    <<"c", "o", "n", "n", "e", "c", "t", "i", "o", "n">>
\* keyGigaChat: the text 'GigaChat'
keyGigaChat ==
    <<"G", "i", "g", "a", "C", "h", "a", "t">>
\* keyApi: the text 'API'
keyApi ==
    <<"A", "P", "I">>

\* the text the except branch returns for an exception with message error_msg
error_reply(error_msg) ==
    IF contains(error_msg, keySqlQuery) \/ contains(error_msg, keySql)
    THEN msgRephrase
    ELSE IF contains(lower(error_msg), keyConnect) \/ contains(lower(error_msg), keyConnection)
    THEN msgConnection
    ELSE IF contains(error_msg, keyGigaChat) \/ contains(error_msg, keyApi)
    THEN msgApi
    ELSE msgGeneral

\* what the generator raises when the call of the model raised error
chat_raised(error) == [ok |-> FALSE, error |-> msgApiError \o error]

\* answer_question with the validation left out: whatever was generated is run
answer_question_unvalidated(generated) ==
    IF ~generated.ok
    THEN [next |-> "return", text |-> error_reply(generated.error), steps |-> <<>>]
    ELSE [next |-> "_execute_query", sql |-> generated.text,
          steps |-> <<"_validate_sql", "_execute_query">>]

\* answer_question from the return of generate_sql to the call of the store,
\* or to the return where the store is not called
answer_question_generated(generated) ==
    IF ~generated.ok
    THEN [next |-> "return", text |-> error_reply(generated.error), steps |-> <<>>]
    ELSE IF ~_validate_sql(generated.text)
    THEN [next |-> "return", text |-> msgUnsafe, steps |-> <<"_validate_sql">>]
    ELSE [next |-> "_execute_query", sql |-> generated.text,
          steps |-> <<"_validate_sql", "_execute_query">>]

\* the text of the answer before, when there is one
answer_question_remembered(result) ==
    IF outcome # NoValue /\ outcome.of = "VideoAnalytics.answer_question" THEN outcome.text
    ELSE IF ~result.ok THEN error_reply(result.error)
    ELSE _format_number(result.value).text

\* answer_question from the return of _execute_query on: the text returned
answer_question_executed(result) ==
    LET formatted == _format_number(result.value)
    IN  IF ~result.ok THEN error_reply(result.error)
        ELSE IF ~formatted.ok THEN error_reply(formatted.error)
        ELSE formatted.text

\* _execute_query and then _format_number, as answer_question runs them: the
\* text of the number, or the exception raised
execute_and_format(reply) ==
    LET result == _execute_query(reply)
    IN  IF result.ok THEN _format_number(result.value)
        ELSE [ok |-> FALSE, exc |-> "Exception", error |-> result.error]

returned(of, text) == [of |-> of, kind |-> "returned", text |-> text]

raised(of, exc, error) == [of |-> of, kind |-> "raised", exc |-> exc, error |-> error]

-----------------------------------------------------------------------------
(* File path: FileAnalyzer.load_json_file, clear_data, answer_question     *)

\* msgBadStructure: the text 'Неверная структура данных: '
msgBadStructure ==
    <<"RU:N", "ru:e", "ru:v", "ru:e", "ru:r", "ru:n", "ru:a", "ru:ya", " ", "ru:s", "ru:t",
      "ru:r", "ru:u", "ru:k", "ru:t", "ru:u", "ru:r", "ru:a", " ", "ru:d", "ru:a", "ru:n",
      "ru:n", "ru:y", "ru:h", ":", " ">>
\* msgNoData: the text 'Данные не загружены. Сначала загрузите JSON файл используя метод load_json_file().'
msgNoData ==
    <<"RU:D", "ru:a", "ru:n", "ru:n", "ru:y", "ru:e", " ", "ru:n", "ru:e", " ", "ru:z",
      "ru:a", "ru:g", "ru:r", "ru:u", "ru:zh", "ru:e", "ru:n", "ru:y", ".", " ", "RU:S",
      "ru:n", "ru:a", "ru:ch", "ru:a", "ru:l", "ru:a", " ", "ru:z", "ru:a", "ru:g", "ru:r",
      "ru:u", "ru:z", "ru:i", "ru:t", "ru:e", " ", "J", "S", "O", "N", " ", "ru:f", "ru:a",
      "ru:j", "ru:l", " ", "ru:i", "ru:s", "ru:p", "ru:o", "ru:l", "ru:soft", "ru:z",
      "ru:u", "ru:ya", " ", "ru:m", "ru:e", "ru:t", "ru:o", "ru:d", " ", "l", "o", "a",
      "d", "_", "j", "s", "o", "n", "_", "f", "i", "l", "e", "(", ")", ".">>
\* msgQuestionError: the text 'Ошибка при обработке вопроса: '
msgQuestionError ==
    <<"RU:O", "ru:sh", "ru:i", "ru:b", "ru:k", "ru:a", " ", "ru:p", "ru:r", "ru:i", " ",
      "ru:o", "ru:b", "ru:r", "ru:a", "ru:b", "ru:o", "ru:t", "ru:k", "ru:e", " ", "ru:v",
      "ru:o", "ru:p", "ru:r", "ru:o", "ru:s", "ru:a", ":", " ">>

\* msgParseError: the text 'Проверьте синтаксис JSON файла.'
msgParseError ==
    <<"RU:P", "ru:r", "ru:o", "ru:v", "ru:e", "ru:r", "ru:soft", "ru:t", "ru:e", " ",
      "ru:s", "ru:i", "ru:n", "ru:t", "ru:a", "ru:k", "ru:s", "ru:i", "ru:s", " ", "J",
      "S", "O", "N", " ", "ru:f", "ru:a", "ru:j", "ru:l", "ru:a", ".">>
\* msgFileNotFound: the text 'Убедитесь, что путь к файлу указан правильно и файл существует.'
msgFileNotFound ==
    <<"RU:U", "ru:b", "ru:e", "ru:d", "ru:i", "ru:t", "ru:e", "ru:s", "ru:soft", ",", " ",
      "ru:ch", "ru:t", "ru:o", " ", "ru:p", "ru:u", "ru:t", "ru:soft", " ", "ru:k", " ",
      "ru:f", "ru:a", "ru:j", "ru:l", "ru:u", " ", "ru:u", "ru:k", "ru:a", "ru:z", "ru:a",
      "ru:n", " ", "ru:p", "ru:r", "ru:a", "ru:v", "ru:i", "ru:l", "ru:soft", "ru:n",
      "ru:o", " ", "ru:i", " ", "ru:f", "ru:a", "ru:j", "ru:l", " ", "ru:s", "ru:u",
      "ru:sch", "ru:e", "ru:s", "ru:t", "ru:v", "ru:u", "ru:e", "ru:t", ".">>

\* a path that names no file, and a file whose text is no JSON
file_missing == [type |-> "missing"]

file_malformed == [type |-> "malformed"]

\* load_json_file on a path: data is the JSON value the file holds, or says
\* that the file is missing or that its text is malformed
load_json_file(data) ==
    LET checked == _validate_data_structure(data)
    IN  IF data = file_missing
        THEN raised("load_json_file", "FileNotFoundError", msgFileNotFound)
        ELSE IF data = file_malformed
        THEN raised("load_json_file", "ValueError", msgParseError)
        ELSE IF ~checked.valid
        THEN raised("load_json_file", "ValueError", msgBadStructure \o checked.error_message)
        ELSE [of |-> "load_json_file", kind |-> "returned", value |-> data]

\* FileAnalyzer.answer_question from the return of the model on
file_answer_question_replied(response) ==
    LET extracted == extract_text(response)
    IN  IF ~extracted.ok
        THEN raised("FileAnalyzer.answer_question", "Exception",
                    msgQuestionError \o extracted.error)
        ELSE returned("FileAnalyzer.answer_question", _extract_number(extracted.text).text)


-----------------------------------------------------------------------------
(* File path: the cache of the loaded file (CACHE_DIR, CACHE_METADATA_FILE) *)
(*                                                                         *)
(* A file path is modelled by its directory and the JSON value the file    *)
(* holds: the cache names a copy after the hash of its content.  The       *)
(* state of a FileAnalyzer and of the cache directory is one record        *)
(*   [current_data, cached_file_path, cached_file_name, cache_dir,         *)
(*    metadata]                                                            *)
(* cache_dir being the set of the cache files that exist and metadata what *)
(* CACHE_METADATA_FILE holds.                                              *)

UploadPath(data) == [dir |-> "upload", holds |-> data]

CachePath(data) == [dir |-> "cache", holds |-> data]

\* os.path.basename
basename(file_path) == [name_of |-> file_path.holds]

\* CACHE_METADATA_FILE does not exist
NoMetadata == [kind |-> "absent"]

\* CACHE_METADATA_FILE cannot be read as a JSON object: truncated by a write
\* that failed
MalformedMetadata == [kind |-> "malformed"]

\* the metadata _save_to_cache writes
metadata_of(file_name, cache_file_path) ==
    [kind |-> "record", file_name |-> file_name, file_path |-> cache_file_path]

\* where a write of _save_to_cache can fail: nowhere, in shutil.copy2, in the
\* open of the metadata file, in json.dump after the open has truncated it
SaveFailures == {"none", "copy2", "open", "dump"}

\* which of the two os.unlink of _clear_cache fail
ClearFailures == [unlink_file : BOOLEAN, unlink_metadata : BOOLEAN]

NoFailure == [unlink_file |-> FALSE, unlink_metadata |-> FALSE]

\* a FileAnalyzer as __init__ leaves it, over the cache directory of st
new_analyzer(st) ==
    [st EXCEPT !.current_data = py_none, !.cached_file_path = py_none,
               !.cached_file_name = py_none]

\* _save_to_cache: the path of the copy, or the exception, and the cache after
_save_to_cache(st, source_file_path, file_name, failure) ==
    LET cache_file_path == CachePath(source_file_path.holds)
        copied == [st EXCEPT !.cache_dir = @ \cup {cache_file_path}]
    IN  CASE failure = "copy2" -> [ok |-> FALSE, path |-> py_none, st |-> st]
          [] failure = "open" -> [ok |-> FALSE, path |-> py_none, st |-> copied]
          [] failure = "dump" ->
                [ok |-> FALSE, path |-> py_none,
                 st |-> [copied EXCEPT !.metadata = MalformedMetadata]]
          [] OTHER ->
                [ok |-> TRUE, path |-> cache_file_path,
                 st |-> [copied EXCEPT
                            !.metadata = metadata_of(file_name, cache_file_path)]]

\* load_json_file letting the exception of _save_to_cache through
load_json_file_uncaught(st, file_path, cache, failure) ==
    LET data == file_path.holds
        loaded == load_json_file(data)
        active == [st EXCEPT !.current_data = data]
        saved == _save_to_cache(active, file_path, basename(file_path), failure)
    IN  IF loaded.kind # "returned" THEN [outcome |-> loaded, st |-> st]
        ELSE IF ~cache THEN [outcome |-> loaded, st |-> active]
        ELSE IF ~saved.ok
        THEN [outcome |-> raised("load_json_file", "Exception", <<>>), st |-> saved.st]
        ELSE [outcome |-> loaded,
              st |-> [saved.st EXCEPT !.cached_file_path = saved.path,
                                      !.cached_file_name = basename(file_path)]]

\* load_json_file making the data the active document before it validates them
load_json_file_unvalidated(st, file_path, cache, failure) ==
    LET data == file_path.holds
        loaded == load_json_file(data)
        active == [st EXCEPT !.current_data = data]
        saved == _save_to_cache(active, file_path, basename(file_path), failure)
    IN  IF loaded.kind # "returned" THEN [outcome |-> loaded, st |-> active]
        ELSE IF ~cache THEN [outcome |-> loaded, st |-> active]
        ELSE IF ~saved.ok THEN [outcome |-> loaded, st |-> saved.st]
        ELSE [outcome |-> loaded,
              st |-> [saved.st EXCEPT !.cached_file_path = saved.path,
                                      !.cached_file_name = basename(file_path)]]

\* load_json_file(file_path, cache) on a path: what it returns or
\* raises, and the analyzer and the cache after
load_json_file_into(st, file_path, cache, failure) ==
    LET data == file_path.holds
        loaded == load_json_file(data)
        active == [st EXCEPT !.current_data = data]
        saved == _save_to_cache(active, file_path, basename(file_path), failure)
    IN  IF loaded.kind # "returned" THEN [outcome |-> loaded, st |-> st]
        ELSE IF ~cache THEN [outcome |-> loaded, st |-> active]
        ELSE IF ~saved.ok THEN [outcome |-> loaded, st |-> saved.st]
        ELSE [outcome |-> loaded,
              st |-> [saved.st EXCEPT !.cached_file_path = saved.path,
                                      !.cached_file_name = basename(file_path)]]

\* _clear_cache with a metadata file that cannot be read: the except branch
\* reads cache_file_path, which was never bound
clear_cache_unreadable(st) ==
    [raised |-> TRUE, exc |-> "UnboundLocalError", st |-> st]

\* _clear_cache
_clear_cache(st, fails) ==
    LET cache_file_path == st.metadata.file_path
        unlinked ==
            IF cache_file_path \in st.cache_dir /\ ~fails.unlink_file
            THEN st.cache_dir \ {cache_file_path} ELSE st.cache_dir
        forgotten(s) ==
            [s EXCEPT !.cached_file_path = py_none, !.cached_file_name = py_none]
    IN  CASE st.metadata.kind = "absent" ->
                [raised |-> FALSE, exc |-> "", st |-> forgotten(st)]
          [] st.metadata.kind = "malformed" -> clear_cache_unreadable(st)
          [] OTHER ->
                [raised |-> FALSE, exc |-> "",
                 st |-> forgotten([st EXCEPT
                            !.cache_dir = unlinked,
                            !.metadata = IF fails.unlink_metadata THEN @
                                         ELSE NoMetadata])]

\* clear_data clearing the cache before it drops the data
clear_data_cache_first(st, fails) ==
    LET cleared == _clear_cache(st, fails)
    IN  IF cleared.raised
        THEN [outcome |-> raised("clear_data", cleared.exc, <<>>), st |-> cleared.st]
        ELSE [outcome |-> [of |-> "clear_data", kind |-> "returned", value |-> py_none],
              st |-> [cleared.st EXCEPT !.current_data = py_none]]

\* clear_data
clear_data(st, fails) ==
    LET cleared == _clear_cache([st EXCEPT !.current_data = py_none], fails)
    IN  [outcome |-> IF cleared.raised
                     THEN raised("clear_data", cleared.exc, <<>>)
                     ELSE [of |-> "clear_data", kind |-> "returned", value |-> py_none],
         st |-> cleared.st]

\* _load_from_cache: the path of the cached file or None
_load_from_cache(st, fails) ==
    IF st.metadata.kind # "record" THEN [path |-> py_none, st |-> st]
    ELSE IF st.metadata.file_path \in st.cache_dir
    THEN [path |-> st.metadata.file_path,
          st |-> [st EXCEPT !.cached_file_name = st.metadata.file_name]]
    ELSE [path |-> py_none, st |-> _clear_cache(st, fails).st]

py_bool(b) == [type |-> "bool", value |-> b]

\* load_cached_file
load_cached_file(st, fails) ==
    LET found == _load_from_cache(st, fails)
        loaded == load_json_file_into(found.st, found.path, FALSE, "none")
        cleared == _clear_cache(found.st, fails)
        result(value, s) ==
            [outcome |-> [of |-> "load_cached_file", kind |-> "returned", value |-> value],
             st |-> s]
    IN  IF found.path = py_none THEN result(py_bool(FALSE), found.st)
        ELSE IF loaded.outcome.kind = "returned"
        THEN result(py_bool(TRUE), [loaded.st EXCEPT !.cached_file_path = found.path])
        ELSE IF cleared.raised
        THEN [outcome |-> raised("load_cached_file", cleared.exc, <<>>), st |-> cleared.st]
        ELSE result(py_bool(FALSE), cleared.st)

\* get_cached_file_info
get_cached_file_info(st) ==
    [of |-> "get_cached_file_info", kind |-> "returned",
     value |-> IF st.metadata.kind = "record" /\ st.metadata.file_path \in st.cache_dir
               THEN st.metadata ELSE py_none]


-----------------------------------------------------------------------------
(* Concurrent questions: the handlers of bot.py as tasks of one event loop, *)
(* VideoAnalytics._get_pool and _execute_query over asyncpg's pool          *)
(*                                                                         *)
(* A handler is a record                                                   *)
(*   [pc, route, pool, reads, stuck]                                       *)
(* pc being the await it is suspended at ("idle": not running), route the  *)
(* value of use_file_analyzer, pool the local variable pool of             *)
(* _execute_query (the number of a pool, 0 before it is bound), reads the  *)
(* values of FileAnalyzer.current_data the question has read so far, and   *)
(* stuck whether its call of the model never returns.  A pool is a record  *)
(*   [busy, closed]                                                        *)
(* busy being the number of its connections that are acquired; the         *)
(* handlers waiting for one are those suspended in its acquire().  The     *)
(* order in which a pool serves them is asyncpg's and is left open.        *)

\* max_size of asyncpg.create_pool
max_size == 5

\* the pools that may be created in one run
MaxPools == 2

\* the handlers that may run at once beside the pool under load
MaxHandlers == 1

idle_handler ==
    [pc |-> "idle", route |-> "none", pool |-> 0, reads |-> <<>>, stuck |-> FALSE]

new_pool == [busy |-> 0, closed |-> FALSE]

\* the file mode decided by the pointer to the cached file
use_cached_file(st) == st.cached_file_path # py_none

\* use_file_analyzer of handle_message and handle_message_with_query:
\* file_analyzer.has_data()
use_file_analyzer(st) == st.current_data # py_none

\* the call of the model made in the coroutine itself
called_in_event_loop(h) == h.pc \in {"chat", "generate_sql"}

\* whether a suspended handler keeps the event loop from running the others:
\* asyncio.to_thread hands the call of the model to a worker thread
blocks_event_loop(h) == FALSE

\* the handler as handle_message leaves it at its first await
\* (message.answer), the route taken
routed(st) ==
    [idle_handler EXCEPT !.pc = "processing_msg",
                         !.route = IF use_file_analyzer(st) THEN "file" ELSE "store"]

\* FileAnalyzer.answer_question up to the call of the model: the handler at
\* the await of asyncio.to_thread, or done when no data is loaded
file_question_started(h, data, hang) ==
    IF data = py_none
    THEN [h EXCEPT !.pc = "idle", !.reads = <<data>>]
    ELSE [h EXCEPT !.pc = "chat", !.reads = <<data, data>>, !.stuck = hang]

\* FileAnalyzer.answer_question from the return of the model on: the
\* diagnostics of a zero answer read current_data again, to test that it is
\* a dict and then to count its videos
file_question_replied(h, data, replied) ==
    [h EXCEPT !.pc = "idle",
              !.reads = IF replied.kind = "returned" /\ replied.text = text_zero
                        THEN @ \o (IF data = py_none THEN <<data>> ELSE <<data, data>>)
                        ELSE @]

\* _get_pool up to its await of create_pool, or to its return and the call
\* of pool.acquire()
pool_requested(h, shared) ==
    IF shared = 0 THEN [h EXCEPT !.pc = "create_pool"]
    ELSE [h EXCEPT !.pc = "acquire", !.pool = shared]

\* the connection given back only when the statement did not raise
released_on_success(ps, p, failed) ==
    [ps EXCEPT ![p].busy = IF failed THEN @ ELSE @ - 1]

\* the pools once `async with pool.acquire()` is left, the statement having
\* raised or not
released(ps, p, failed) == [ps EXCEPT ![p].busy = @ - 1]


-----------------------------------------------------------------------------
(* scripts/watch_bot.py: the bot as a child process, started again when a  *)
(* source file changes (observer thread) or when it has exited (main       *)
(* thread).  A child is a number from 1; both threads run reload_bot, one  *)
(* statement at a time.                                                    *)

\* how many children the watcher starts at most
MaxSpawned == 3

WatchThreads == {"main", "observer"}

\* a thread at a statement; started is the child its Popen has returned and
\* that self.process does not hold yet, 0 for none
thread_at(at) == [pc |-> at, started |-> 0]

\* where a thread is when it is not in reload_bot
resting(t) == IF t = "main" THEN "loop" ELSE "idle"

\* self.process and self.process.poll() is None
is_running(handle, running) == handle # 0 /\ handle \in running

\* handler.process and handler.process.poll() is not None
has_exited(handle, running) == handle # 0 /\ handle \notin running

\* reload_bot from its first line: to the stop of the current child or
\* straight to the start of a new one
reload_bot_from(handle, running) ==
    IF is_running(handle, running) THEN "terminate" ELSE "popen"


-----------------------------------------------------------------------------
(* Inputs: what the environment (the user, the model, the store, the      *)
(* uploaded file) hands to the program, drawn from bounded sets            *)

\* the most white space put around an input text
MaxPad == 2

\* the most tokens of a reply the number is extracted from
MaxTokens == 4

\* the most words of a question
MaxWords == 3

\* small magnitudes run from 0 to MaxSmall
MaxSmall == 3

\* magnitudes around 2^53 run from 2^53 - MaxOffset to 2^53 + MaxOffset
MaxOffset == 3

\* the most videos of a document
MaxVideos == 2

\* the most snapshots of a video
MaxSnapshots == 2

pad(n) == [i \in 1..n |-> " "]

\* every text with white space of up to MaxPad characters around a text of texts
padded(texts) == {pad(n) \o s \o pad(m) : n \in 0..MaxPad, m \in 0..MaxPad, s \in texts}

\* the statements the generation prompt documents as examples
\* stmt_count_videos: the text 'SELECT COUNT(*) FROM videos'
stmt_count_videos ==
    <<"S", "E", "L", "E", "C", "T", " ", "C", "O", "U", "N", "T", "(", "*", ")", " ", "F",
      "R", "O", "M", " ", "v", "i", "d", "e", "o", "s">>
\* stmt_sum_views: the text 'SELECT SUM(views_count) FROM videos'
stmt_sum_views ==
    <<"S", "E", "L", "E", "C", "T", " ", "S", "U", "M", "(", "v", "i", "e", "w", "s", "_",
      "c", "o", "u", "n", "t", ")", " ", "F", "R", "O", "M", " ", "v", "i", "d", "e", "o",
      "s">>
\* stmt_count_popular: the text 'SELECT COUNT(*) FROM videos WHERE views_count > 100000'
stmt_count_popular ==
    <<"S", "E", "L", "E", "C", "T", " ", "C", "O", "U", "N", "T", "(", "*", ")", " ", "F",
      "R", "O", "M", " ", "v", "i", "d", "e", "o", "s", " ", "W", "H", "E", "R", "E", " ",
      "v", "i", "e", "w", "s", "_", "c", "o", "u", "n", "t", " ", ">", " ", "1", "0", "0",
      "0", "0", "0">>
\* stmt_sum_delta_views: the text "SELECT SUM(delta_views_count) FROM video_snapshots WHERE DATE(created_at) = DATE '2025-11-28'"
stmt_sum_delta_views ==
    <<"S", "E", "L", "E", "C", "T", " ", "S", "U", "M", "(", "d", "e", "l", "t", "a", "_",
      "v", "i", "e", "w", "s", "_", "c", "o", "u", "n", "t", ")", " ", "F", "R", "O", "M",
      " ", "v", "i", "d", "e", "o", "_", "s", "n", "a", "p", "s", "h", "o", "t", "s", " ",
      "W", "H", "E", "R", "E", " ", "D", "A", "T", "E", "(", "c", "r", "e", "a", "t", "e",
      "d", "_", "a", "t", ")", " ", "=", " ", "D", "A", "T", "E", " ", "'", "2", "0", "2",
      "5", "-", "1", "1", "-", "2", "8", "'">>
\* stmt_count_growing: the text "SELECT COUNT(DISTINCT video_id) FROM video_snapshots WHERE DATE(created_at) = DATE '2025-11-27' AND delta_views_count > 0"
stmt_count_growing ==
    <<"S", "E", "L", "E", "C", "T", " ", "C", "O", "U", "N", "T", "(", "D", "I", "S", "T",
      "I", "N", "C", "T", " ", "v", "i", "d", "e", "o", "_", "i", "d", ")", " ", "F", "R",
      "O", "M", " ", "v", "i", "d", "e", "o", "_", "s", "n", "a", "p", "s", "h", "o", "t",
      "s", " ", "W", "H", "E", "R", "E", " ", "D", "A", "T", "E", "(", "c", "r", "e", "a",
      "t", "e", "d", "_", "a", "t", ")", " ", "=", " ", "D", "A", "T", "E", " ", "'", "2",
      "0", "2", "5", "-", "1", "1", "-", "2", "7", "'", " ", "A", "N", "D", " ", "d", "e",
      "l", "t", "a", "_", "v", "i", "e", "w", "s", "_", "c", "o", "u", "n", "t", " ", ">",
      " ", "0">>
\* stmt_count_period: the text "SELECT COUNT(*) FROM videos WHERE creator_id = 'creator123' AND DATE(video_created_at) BETWEEN DATE '2025-11-01' AND DATE '2025-11-05'"
stmt_count_period ==
    <<"S", "E", "L", "E", "C", "T", " ", "C", "O", "U", "N", "T", "(", "*", ")", " ", "F",
      "R", "O", "M", " ", "v", "i", "d", "e", "o", "s", " ", "W", "H", "E", "R", "E", " ",
      "c", "r", "e", "a", "t", "o", "r", "_", "i", "d", " ", "=", " ", "'", "c", "r", "e",
      "a", "t", "o", "r", "1", "2", "3", "'", " ", "A", "N", "D", " ", "D", "A", "T", "E",
      "(", "v", "i", "d", "e", "o", "_", "c", "r", "e", "a", "t", "e", "d", "_", "a", "t",
      ")", " ", "B", "E", "T", "W", "E", "E", "N", " ", "D", "A", "T", "E", " ", "'", "2",
      "0", "2", "5", "-", "1", "1", "-", "0", "1", "'", " ", "A", "N", "D", " ", "D", "A",
      "T", "E", " ", "'", "2", "0", "2", "5", "-", "1", "1", "-", "0", "5", "'">>
\* stmt_count_creators: the text 'SELECT COUNT(DISTINCT creator_id) FROM videos'
stmt_count_creators ==
    <<"S", "E", "L", "E", "C", "T", " ", "C", "O", "U", "N", "T", "(", "D", "I", "S", "T",
      "I", "N", "C", "T", " ", "c", "r", "e", "a", "t", "o", "r", "_", "i", "d", ")", " ",
      "F", "R", "O", "M", " ", "v", "i", "d", "e", "o", "s">>
\* stmt_max_views: the text 'SELECT MAX(views_count) FROM videos'
stmt_max_views ==
    <<"S", "E", "L", "E", "C", "T", " ", "M", "A", "X", "(", "v", "i", "e", "w", "s", "_",
      "c", "o", "u", "n", "t", ")", " ", "F", "R", "O", "M", " ", "v", "i", "d", "e", "o",
      "s">>

PromptStatements ==
    {stmt_count_videos, stmt_sum_views, stmt_count_popular, stmt_sum_delta_views,
     stmt_count_growing, stmt_count_period, stmt_count_creators, stmt_max_views}

\* a text with its first letter as written and the rest in lower case
capitalize(s) == IF s = <<>> THEN s ELSE <<s[1]>> \o lower(Tail(s))

\* a text with every second letter in lower case
alternate(s) == [i \in DOMAIN s |-> IF i % 2 = 0 THEN lower_char(s[i]) ELSE s[i]]

case_variants(s) == {s, lower(s), capitalize(s), alternate(s)}

\* the example statements as a model may write them
SelectStatements ==
    PromptStatements \cup {lower(s) : s \in PromptStatements}
        \cup {<<"S">> \o lower(Tail(s)) : s \in PromptStatements}

\* stmt_subquery: the text 'SELECT COUNT(*) FROM (SELECT id FROM videos) t'
stmt_subquery ==
    <<"S", "E", "L", "E", "C", "T", " ", "C", "O", "U", "N", "T", "(", "*", ")", " ", "F",
      "R", "O", "M", " ", "(", "S", "E", "L", "E", "C", "T", " ", "i", "d", " ", "F", "R",
      "O", "M", " ", "v", "i", "d", "e", "o", "s", ")", " ", "t">>
\* stmt_updated: the text 'SELECT COUNT(*) FROM videos WHERE updated_at > created_at'
stmt_updated ==
    <<"S", "E", "L", "E", "C", "T", " ", "C", "O", "U", "N", "T", "(", "*", ")", " ", "F",
      "R", "O", "M", " ", "v", "i", "d", "e", "o", "s", " ", "W", "H", "E", "R", "E", " ",
      "u", "p", "d", "a", "t", "e", "d", "_", "a", "t", " ", ">", " ", "c", "r", "e", "a",
      "t", "e", "d", "_", "a", "t">>
\* stmt_with: the text 'WITH t AS (SELECT id FROM videos) SELECT COUNT(*) FROM t'
stmt_with ==
    <<"W", "I", "T", "H", " ", "t", " ", "A", "S", " ", "(", "S", "E", "L", "E", "C", "T",
      " ", "i", "d", " ", "F", "R", "O", "M", " ", "v", "i", "d", "e", "o", "s", ")", " ",
      "S", "E", "L", "E", "C", "T", " ", "C", "O", "U", "N", "T", "(", "*", ")", " ", "F",
      "R", "O", "M", " ", "t">>
\* stmt_explain: the text 'EXPLAIN SELECT COUNT(*) FROM videos'
stmt_explain ==
    <<"E", "X", "P", "L", "A", "I", "N", " ", "S", "E", "L", "E", "C", "T", " ", "C", "O",
      "U", "N", "T", "(", "*", ")", " ", "F", "R", "O", "M", " ", "v", "i", "d", "e", "o",
      "s">>
\* stmt_parenthesised: the text '(SELECT COUNT(*) FROM videos)'
stmt_parenthesised ==
    <<"(", "S", "E", "L", "E", "C", "T", " ", "C", "O", "U", "N", "T", "(", "*", ")", " ",
      "F", "R", "O", "M", " ", "v", "i", "d", "e", "o", "s", ")">>
\* stmt_show: the text 'SHOW TABLES'
stmt_show ==
    <<"S", "H", "O", "W", " ", "T", "A", "B", "L", "E", "S">>
\* stmt_selec: the text 'SELEC'
stmt_selec ==
    <<"S", "E", "L", "E", "C">>
\* stmt_select_now: the text 'select now()'
stmt_select_now ==
    <<"s", "e", "l", "e", "c", "t", " ", "n", "o", "w", "(", ")">>
\* stmt_two: the text 'Select COUNT(*) FROM videos; DROP TABLE videos'
stmt_two ==
    <<"S", "e", "l", "e", "c", "t", " ", "C", "O", "U", "N", "T", "(", "*", ")", " ", "F",
      "R", "O", "M", " ", "v", "i", "d", "e", "o", "s", ";", " ", "D", "R", "O", "P", " ",
      "T", "A", "B", "L", "E", " ", "v", "i", "d", "e", "o", "s">>

OtherStatements ==
    {<<>>, stmt_subquery, stmt_updated, stmt_with, stmt_explain, stmt_parenthesised,
     stmt_show, stmt_selec, stmt_select_now, stmt_two}

\* before_statement: the text 'SELECT id FROM videos; '
before_statement ==
    <<"S", "E", "L", "E", "C", "T", " ", "i", "d", " ", "F", "R", "O", "M", " ", "v", "i",
      "d", "e", "o", "s", ";", " ">>
\* before_column: the text 'SELECT '
before_column ==
    <<"S", "E", "L", "E", "C", "T", " ">>
\* before_identifier: the text 'SELECT is_'
before_identifier ==
    <<"S", "E", "L", "E", "C", "T", " ", "i", "s", "_">>
\* after_table: the text ' TABLE videos'
after_table ==
    <<" ", "T", "A", "B", "L", "E", " ", "v", "i", "d", "e", "o", "s">>
\* after_identifier: the text '_at FROM videos'
after_identifier ==
    <<"_", "a", "t", " ", "F", "R", "O", "M", " ", "v", "i", "d", "e", "o", "s">>

\* the texts the validator is given: every denylisted word in four letter
\* cases, at the start, after another statement, as a word and inside an
\* identifier; the example statements; other texts
ValidateInputs ==
    {pad(n) \o b \o w \o a :
        n \in 0..MaxPad,
        b \in {<<>>, before_statement, before_column, before_identifier},
        w \in UNION {case_variants(forbidden[i]) : i \in DOMAIN forbidden},
        a \in {<<>>, after_table, after_identifier}}
    \cup padded(SelectStatements \cup OtherStatements)

\* a reply of the model as the client hands it over
choices(content) == [shape |-> "choices", content |-> content]

\* reply_prefix_sql: the text 'SQL: '
reply_prefix_sql ==
    <<"S", "Q", "L", ":", " ">>
\* reply_prefix_here: the text 'Вот SQL запрос: '
reply_prefix_here ==
    <<"RU:V", "ru:o", "ru:t", " ", "S", "Q", "L", " ", "ru:z", "ru:a", "ru:p", "ru:r",
      "ru:o", "ru:s", ":", " ">>
\* reply_fence_open: the text '<backtick><backtick><backtick>sql\n'
reply_fence_open ==
    <<"backtick", "backtick", "backtick", "s", "q", "l", "\n">>
\* reply_fence_close: the text '\n<backtick><backtick><backtick>'
reply_fence_close ==
    <<"\n", "backtick", "backtick", "backtick">>
\* reply_explanation: the text '\n\nЭтот запрос считает все видео.'
reply_explanation ==
    <<"\n", "\n", "RU:EH", "ru:t", "ru:o", "ru:t", " ", "ru:z", "ru:a", "ru:p", "ru:r",
      "ru:o", "ru:s", " ", "ru:s", "ru:ch", "ru:i", "ru:t", "ru:a", "ru:e", "ru:t", " ",
      "ru:v", "ru:s", "ru:e", " ", "ru:v", "ru:i", "ru:d", "ru:e", "ru:o", ".">>
\* reply_no: the text 'нет данных'
reply_no ==
    <<"ru:n", "ru:e", "ru:t", " ", "ru:d", "ru:a", "ru:n", "ru:n", "ru:y", "ru:h">>
\* reply_delete: the text 'Запрос: DELETE FROM videos'
reply_delete ==
    <<"RU:Z", "ru:a", "ru:p", "ru:r", "ru:o", "ru:s", ":", " ", "D", "E", "L", "E", "T",
      "E", " ", "F", "R", "O", "M", " ", "v", "i", "d", "e", "o", "s">>
\* reply_short: the text 'Select 1;'
reply_short ==
    <<"S", "e", "l", "e", "c", "t", " ", "1", ";">>

\* a text with or without a semicolon at its end
terminated(texts) == texts \cup {s \o <<";">> : s \in texts}

\* replies that are one statement, a semicolon or none at its end, white space
\* or none around it
PlainReplies == padded(terminated(SelectStatements))

\* replies that wrap a statement the ways the generator cleans up
WrappedReplies ==
    {reply_prefix_sql \o s \o <<";">> : s \in PromptStatements}
    \cup {reply_prefix_here \o s : s \in PromptStatements}
    \cup {reply_fence_open \o s \o reply_fence_close : s \in PromptStatements}
    \cup {s \o reply_explanation : s \in SelectStatements}
    \cup terminated(OtherStatements)
    \cup {reply_no, reply_delete, reply_short}

GenerateInputs ==
    {choices(s) : s \in PlainReplies \cup WrappedReplies}
    \cup {[shape |-> "content", content |-> reply_prefix_sql \o stmt_count_videos],
          [shape |-> "str", content |-> reply_prefix_sql \o stmt_sum_views],
          [shape |-> "attr", content |-> reply_prefix_sql \o stmt_max_views],
          [shape |-> "attr", content |-> <<>>],
          [shape |-> "other", content |-> <<>>],
          [shape |-> "choices_none", content |-> <<>>],
          [shape |-> "content_none", content |-> <<>>],
          [shape |-> "choices_none_content", content |-> stmt_count_videos]}


\* magnitudes: the small ones and those around 2^53 = 2^27 * Limb
Magnitudes ==
    {nat(k) : k \in 0..MaxSmall}
    \cup {[hi |-> 2^27, lo |-> k] : k \in 0..MaxOffset}
    \cup {[hi |-> 2^27 - 1, lo |-> Limb - k] : k \in 1..MaxOffset}

\* whether a double can hold the magnitude, with a fractional part or without
is_double(m, frac) == round_to_double(m) = m /\ (frac => m.hi < 2^26)

Ints == {py_int(neg, m) : neg \in BOOLEAN, m \in Magnitudes}

Floats ==
    {x \in {py_float(neg, m, frac) : neg \in BOOLEAN, m \in Magnitudes, frac \in BOOLEAN} :
        is_double(x.mag, x.frac)}

Decimals ==
    {py_num("Decimal", "finite", neg, m, frac) :
        neg \in BOOLEAN, m \in Magnitudes, frac \in BOOLEAN}

\* infinities, NaNs and magnitudes beyond the range of a double
SpecialNumbers ==
    {py_num("float", "inf", neg, nat(0), FALSE) : neg \in BOOLEAN}
    \cup {py_num("float", "nan", FALSE, nat(0), FALSE),
          py_num("Decimal", "nan", FALSE, nat(0), FALSE),
          py_num("Decimal", "snan", FALSE, nat(0), FALSE)}
    \cup {py_num(type, "huge", neg, nat(0), FALSE) :
            type \in {"int", "Decimal"}, neg \in BOOLEAN}
    \cup {py_num("Decimal", "inf", neg, nat(0), FALSE) : neg \in BOOLEAN}

\* text_42: the text '42'
text_42 ==
    <<"4", "2">>
\* text_42_9: the text '42.9'
text_42_9 ==
    <<"4", "2", ".", "9">>
\* text_minus_42_9: the text '-42.9'
text_minus_42_9 ==
    <<"-", "4", "2", ".", "9">>
\* text_grouped: the text '3 326 609'
text_grouped ==
    <<"3", " ", "3", "2", "6", " ", "6", "0", "9">>
\* text_beyond: the text '9007199254740993'
text_beyond ==
    <<"9", "0", "0", "7", "1", "9", "9", "2", "5", "4", "7", "4", "0", "9", "9", "3">>
\* text_half: the text '-0.5'
text_half ==
    <<"-", "0", ".", "5">>
\* text_abc: the text 'abc'
text_abc ==
    <<"a", "b", "c">>
\* text_comma: the text '1,5'
text_comma ==
    <<"1", ",", "5">>
\* text_unit: the text '12 шт'
text_unit ==
    <<"1", "2", " ", "ru:sh", "ru:t">>
\* text_inf: the text 'inf'
text_inf ==
    <<"i", "n", "f">>
\* text_nan: the text 'NaN'
text_nan ==
    <<"N", "a", "N">>
\* text_infinity: the text '-Infinity'
text_infinity ==
    <<"-", "I", "n", "f", "i", "n", "i", "t", "y">>

\* texts that write a finite number
NumericTexts ==
    {text_zero, text_42, text_42_9, text_minus_42_9, text_beyond, text_half}

\* texts that write no number
NonNumericTexts == {<<>>, text_abc, text_comma, text_unit}

Texts ==
    NumericTexts \cup NonNumericTexts
        \cup {text_grouped, text_inf, text_nan, text_infinity}

\* the values a scalar of the store, or an argument of the formatter, can be
Numbers ==
    {py_none, [type |-> "object"]} \cup Ints \cup Floats \cup Decimals
        \cup SpecialNumbers \cup {py_str(s) : s \in Texts}

rows(r) == [kind |-> "rows", rows |-> r]

\* the results the store can return for a statement
StoreResults ==
    {rows(<<>>), rows(<< <<>> >>)} \cup {rows(<< <<x>> >>) : x \in Numbers}
        \cup {rows(<< <<py_int(FALSE, nat(1)), py_none>>, <<py_none>> >>)}

\* err_relation: the text 'relation "video" does not exist'
err_relation ==
    <<"r", "e", "l", "a", "t", "i", "o", "n", " ", "\"", "v", "i", "d", "e", "o", "\"",
      " ", "d", "o", "e", "s", " ", "n", "o", "t", " ", "e", "x", "i", "s", "t">>
\* err_connection: the text 'connection was closed in the middle of operation'
err_connection ==
    <<"c", "o", "n", "n", "e", "c", "t", "i", "o", "n", " ", "w", "a", "s", " ", "c", "l",
      "o", "s", "e", "d", " ", "i", "n", " ", "t", "h", "e", " ", "m", "i", "d", "d", "l",
      "e", " ", "o", "f", " ", "o", "p", "e", "r", "a", "t", "i", "o", "n">>
\* err_timeout: the text 'timeout'
err_timeout ==
    <<"t", "i", "m", "e", "o", "u", "t">>
\* err_database_url: the text 'Неверный формат DATABASE_URL: отсутствуют user или database'
err_database_url ==
    <<"RU:N", "ru:e", "ru:v", "ru:e", "ru:r", "ru:n", "ru:y", "ru:j", " ", "ru:f", "ru:o",
      "ru:r", "ru:m", "ru:a", "ru:t", " ", "D", "A", "T", "A", "B", "A", "S", "E", "_",
      "U", "R", "L", ":", " ", "ru:o", "ru:t", "ru:s", "ru:u", "ru:t", "ru:s", "ru:t",
      "ru:v", "ru:u", "ru:yu", "ru:t", " ", "u", "s", "e", "r", " ", "ru:i", "ru:l",
      "ru:i", " ", "d", "a", "t", "a", "b", "a", "s", "e">>

\* the ways the store can fail: while the pool is made, or while fetching
StoreFailures ==
    {[kind |-> "no_pool", error |-> e] : e \in {err_database_url, err_connection}}
    \cup {[kind |-> "error", error |-> e] : e \in {err_relation, err_connection, err_timeout}}

StoreReplies == StoreResults \cup StoreFailures

\* the messages of the exceptions a call of the model can raise
ChatErrors == {err_connection, err_timeout, <<>>}


\* the pieces a reply of the file path is put together from
Tokens == {<<"1">>, <<"2">>, <<" ">>, <<"a">>, <<"$">>, <<"*">>, fence}

\* the texts of up to n pieces
RECURSIVE texts_of(_)
texts_of(n) ==
    IF n = 0 THEN {<<>>}
    ELSE texts_of(n - 1) \cup {s \o k : s \in texts_of(n - 1), k \in Tokens}

\* reply_views: the text 'Ответ: 3 326 609 просмотров'
reply_views ==
    <<"RU:O", "ru:t", "ru:v", "ru:e", "ru:t", ":", " ", "3", " ", "3", "2", "6", " ", "6",
      "0", "9", " ", "ru:p", "ru:r", "ru:o", "ru:s", "ru:m", "ru:o", "ru:t", "ru:r",
      "ru:o", "ru:v">>
\* reply_result: the text 'Результат: 150'
reply_result ==
    <<"RU:R", "ru:e", "ru:z", "ru:u", "ru:l", "ru:soft", "ru:t", "ru:a", "ru:t", ":", " ",
      "1", "5", "0">>
\* reply_product: the text '5 * 3 * 2 = 30'
reply_product ==
    <<"5", " ", "*", " ", "3", " ", "*", " ", "2", " ", "=", " ", "3", "0">>
\* reply_latex: the text '$$12$$ 3'
reply_latex ==
    <<"$", "$", "1", "2", "$", "$", " ", "3">>
\* reply_bold: the text '**7** и 12345'
reply_bold ==
    <<"*", "*", "7", "*", "*", " ", "ru:i", " ", "1", "2", "3", "4", "5">>
\* reply_code: the text '<backtick><backtick><backtick>python\n42<backtick><backtick><backtick>'
reply_code ==
    <<"backtick", "backtick", "backtick", "p", "y", "t", "h", "o", "n", "\n", "4", "2",
      "backtick", "backtick", "backtick">>
\* reply_decimal: the text '1.5'
reply_decimal ==
    <<"1", ".", "5">>

ExtractInputs ==
    texts_of(MaxTokens)
        \cup {reply_views, reply_result, reply_no, reply_product, reply_latex, reply_bold,
              reply_code, reply_decimal}

\* the words a question is put together from
\* word_Kakoe_kolichestvo: the text 'Какое количество'
word_Kakoe_kolichestvo ==
    <<"RU:K", "ru:a", "ru:k", "ru:o", "ru:e", " ", "ru:k", "ru:o", "ru:l", "ru:i", "ru:ch",
      "ru:e", "ru:s", "ru:t", "ru:v", "ru:o">>
\* word_vmeste: the text 'вместе'
word_vmeste ==
    <<"ru:v", "ru:m", "ru:e", "ru:s", "ru:t", "ru:e">>
\* word_lajkov: the text 'лайков'
word_lajkov ==
    <<"ru:l", "ru:a", "ru:j", "ru:k", "ru:o", "ru:v">>
\* word_video: the text 'видео'
word_video ==
    <<"ru:v", "ru:i", "ru:d", "ru:e", "ru:o">>
\* word_1: the text '1'
word_1 ==
    <<"1">>
\* word_000: the text '000'
word_000 ==
    <<"0", "0", "0">>

Words ==
    {syn_skolko, word_Kakoe_kolichestvo, syn_kakaya_summa, syn_summarno, syn_vsego,
     syn_v_summe, word_vmeste, syn_za_ves_period, word_lajkov, word_video, word_1, word_000}

\* the questions of up to n words, one space between two words
RECURSIVE questions_of(_)
questions_of(n) ==
    IF n = 0 THEN {<<>>}
    ELSE questions_of(n - 1) \cup Words
            \cup {q \o <<" ">> \o w : q \in questions_of(n - 1) \ {<<>>}, w \in Words}

\* question_total: the text 'Сколько всего видео есть в системе?'
question_total ==
    <<"RU:S", "ru:k", "ru:o", "ru:l", "ru:soft", "ru:k", "ru:o", " ", "ru:v", "ru:s",
      "ru:e", "ru:g", "ru:o", " ", "ru:v", "ru:i", "ru:d", "ru:e", "ru:o", " ", "ru:e",
      "ru:s", "ru:t", "ru:soft", " ", "ru:v", " ", "ru:s", "ru:i", "ru:s", "ru:t", "ru:e",
      "ru:m", "ru:e", "?">>
\* question_spaced: the text '  сколько   видео набрало больше 100  000 просмотров  '
question_spaced ==
    <<" ", " ", "ru:s", "ru:k", "ru:o", "ru:l", "ru:soft", "ru:k", "ru:o", " ", " ", " ",
      "ru:v", "ru:i", "ru:d", "ru:e", "ru:o", " ", "ru:n", "ru:a", "ru:b", "ru:r", "ru:a",
      "ru:l", "ru:o", " ", "ru:b", "ru:o", "ru:l", "ru:soft", "ru:sh", "ru:e", " ", "1",
      "0", "0", " ", " ", "0", "0", "0", " ", "ru:p", "ru:r", "ru:o", "ru:s", "ru:m",
      "ru:o", "ru:t", "ru:r", "ru:o", "ru:v", " ", " ">>
\* question_million: the text 'у скольких видео больше 1 000 000 просмотров'
question_million ==
    <<"ru:u", " ", "ru:s", "ru:k", "ru:o", "ru:l", "ru:soft", "ru:k", "ru:i", "ru:h", " ",
      "ru:v", "ru:i", "ru:d", "ru:e", "ru:o", " ", "ru:b", "ru:o", "ru:l", "ru:soft",
      "ru:sh", "ru:e", " ", "1", " ", "0", "0", "0", " ", "0", "0", "0", " ", "ru:p",
      "ru:r", "ru:o", "ru:s", "ru:m", "ru:o", "ru:t", "ru:r", "ru:o", "ru:v">>
\* question_sum: the text 'Какая сумма лайков за всё время?'
question_sum ==
    <<"RU:K", "ru:a", "ru:k", "ru:a", "ru:ya", " ", "ru:s", "ru:u", "ru:m", "ru:m", "ru:a",
      " ", "ru:l", "ru:a", "ru:j", "ru:k", "ru:o", "ru:v", " ", "ru:z", "ru:a", " ",
      "ru:v", "ru:s", "ru:yo", " ", "ru:v", "ru:r", "ru:e", "ru:m", "ru:ya", "?">>
\* question_creator: the text 'видео креатора creator123 5 ноября'
question_creator ==
    <<"ru:v", "ru:i", "ru:d", "ru:e", "ru:o", " ", "ru:k", "ru:r", "ru:e", "ru:a", "ru:t",
      "ru:o", "ru:r", "ru:a", " ", "c", "r", "e", "a", "t", "o", "r", "1", "2", "3", " ",
      "5", " ", "ru:n", "ru:o", "ru:ya", "ru:b", "ru:r", "ru:ya">>
\* question_time: the text 'просмотры на 2025-11-28 10:00'
question_time ==
    <<"ru:p", "ru:r", "ru:o", "ru:s", "ru:m", "ru:o", "ru:t", "ru:r", "ru:y", " ", "ru:n",
      "ru:a", " ", "2", "0", "2", "5", "-", "1", "1", "-", "2", "8", " ", "1", "0", ":",
      "0", "0">>

Questions == {question_total, question_spaced, question_million, question_sum}

NormalizeInputs ==
    questions_of(MaxWords) \cup Questions \cup {question_creator, question_time}


\* identifiers of videos: two in the form 8-4-4-4-12, one of them followed by a
\* line break, one that lacks a character, one that is no identifier at all
\* id_first: the text '01234567-89ab-cdef-0123-456789abcdef'
id_first ==
    <<"0", "1", "2", "3", "4", "5", "6", "7", "-", "8", "9", "a", "b", "-", "c", "d", "e",
      "f", "-", "0", "1", "2", "3", "-", "4", "5", "6", "7", "8", "9", "a", "b", "c", "d",
      "e", "f">>
\* id_second: the text 'AAAAAAAA-bbbb-4ccc-8ddd-eeeeeeeeeeee'
id_second ==
    <<"A", "A", "A", "A", "A", "A", "A", "A", "-", "b", "b", "b", "b", "-", "4", "c", "c",
      "c", "-", "8", "d", "d", "d", "-", "e", "e", "e", "e", "e", "e", "e", "e", "e", "e",
      "e", "e">>
\* id_line_break: the text '01234567-89ab-cdef-0123-456789abcdef\n'
id_line_break ==
    <<"0", "1", "2", "3", "4", "5", "6", "7", "-", "8", "9", "a", "b", "-", "c", "d", "e",
      "f", "-", "0", "1", "2", "3", "-", "4", "5", "6", "7", "8", "9", "a", "b", "c", "d",
      "e", "f", "\n">>
\* id_short: the text '01234567-89ab-cdef-0123-456789abcde'
id_short ==
    <<"0", "1", "2", "3", "4", "5", "6", "7", "-", "8", "9", "a", "b", "-", "c", "d", "e",
      "f", "-", "0", "1", "2", "3", "-", "4", "5", "6", "7", "8", "9", "a", "b", "c", "d",
      "e">>
\* id_word: the text 'video-1'
id_word ==
    <<"v", "i", "d", "e", "o", "-", "1">>
\* text_creator: the text 'creator123'
text_creator ==
    <<"c", "r", "e", "a", "t", "o", "r", "1", "2", "3">>
\* text_created_at: the text '2025-11-28T10:00:00+00:00'
text_created_at ==
    <<"2", "0", "2", "5", "-", "1", "1", "-", "2", "8", "T", "1", "0", ":", "0", "0", ":",
      "0", "0", "+", "0", "0", ":", "0", "0">>

\* the snapshots a video with identifier id can hold: a sound one, one that is
\* no object, one without video_id, one of another video (with and without
\* created_at), one without created_at
snapshots_of(id) ==
    {json_object([video_id |-> py_str(id), created_at |-> py_str(text_created_at)]),
     py_str(id),
     json_object([created_at |-> py_str(text_created_at)]),
     json_object([video_id |-> py_str(id_second), created_at |-> py_str(text_created_at)]),
     json_object([video_id |-> py_none]),
     json_object([video_id |-> py_str(id)])}

\* the sequences of up to n elements of a set
RECURSIVE lists_of(_, _)
lists_of(set, n) ==
    IF n = 0 THEN {<<>>}
    ELSE lists_of(set, n - 1)
            \cup {l \o <<x>> : l \in {k \in lists_of(set, n - 1) : Len(k) = n - 1}, x \in set}

\* the videos of a document: values that are no object, objects that lack or
\* spoil a field of their own, and objects with every kind of snapshots
Videos ==
    {py_none, json_array(<<>>),
     json_object([creator_id |-> py_str(text_creator)]),
     json_object([id |-> py_int(FALSE, nat(7)), creator_id |-> py_str(text_creator)]),
     json_object([id |-> py_none, creator_id |-> py_str(text_creator)])}
    \cup {json_object([id |-> py_str(i), creator_id |-> py_str(text_creator)]) :
            i \in {id_first, id_second, id_line_break, id_short, id_word}}
    \cup {json_object([id |-> py_str(id_first)]),
          json_object([id |-> py_str(id_first), creator_id |-> py_none]),
          json_object([id |-> py_str(id_word), snapshots |-> py_none]),
          json_object([id |-> py_str(id_first),
                       snapshots |-> json_array(<<py_none>>)]),
          json_object([id |-> py_str(id_first), creator_id |-> py_str(text_creator),
                       snapshots |-> py_none]),
          json_object([id |-> py_str(id_first), creator_id |-> py_str(text_creator),
                       snapshots |-> json_object([video_id |-> py_str(id_first)])])}
    \cup {json_object([id |-> py_str(id_first), creator_id |-> py_str(text_creator),
                       snapshots |-> json_array(l)]) :
            l \in lists_of(snapshots_of(id_first), MaxSnapshots)}

\* the JSON values a file can hold
Documents ==
    {py_none, py_str(id_first), json_array(<<>>),
     json_array(<<json_object([videos |-> json_array(<<>>)])>>),
     json_object(<<>>),
     json_object([video |-> json_array(<<>>)]),
     json_object([videos |-> py_none]),
     json_object([videos |-> json_object([id |-> py_str(id_first)])])}
    \cup {json_object([videos |-> json_array(l)]) : l \in lists_of(Videos, MaxVideos)}

\* a few of them, for the file path
document_one ==
    json_object([videos |-> json_array(<<
        json_object([id |-> py_str(id_first), creator_id |-> py_str(text_creator),
                     snapshots |-> json_array(<<
                         json_object([video_id |-> py_str(id_first),
                                      created_at |-> py_str(text_created_at)])>>)])>>)])

document_two ==
    json_object([videos |-> json_array(<<
        json_object([id |-> py_str(id_first), creator_id |-> py_str(text_creator)]),
        json_object([id |-> py_str(id_second), creator_id |-> py_str(text_creator)])>>)])

document_broken ==
    json_object([videos |-> json_array(<<
        json_object([id |-> py_str(id_first), creator_id |-> py_str(text_creator)]),
        json_object([id |-> py_str(id_word), creator_id |-> py_str(text_creator)])>>)])

Files ==
    {document_one, document_two, document_broken, json_array(<<>>), file_missing,
     file_malformed}


\* how many videos a caller of _select_sample_videos asks for at most
MaxSamples == 3

\* text_day_one: the text '2025-11-01T10:00:00+00:00'
text_day_one ==
    <<"2", "0", "2", "5", "-", "1", "1", "-", "0", "1", "T", "1", "0", ":", "0", "0", ":",
      "0", "0", "+", "0", "0", ":", "0", "0">>
\* text_day_one_later: the text '2025-11-01T18:30:00+00:00'
text_day_one_later ==
    <<"2", "0", "2", "5", "-", "1", "1", "-", "0", "1", "T", "1", "8", ":", "3", "0", ":",
      "0", "0", "+", "0", "0", ":", "0", "0">>
\* text_day_two: the text '2025-11-02T10:00:00+00:00'
text_day_two ==
    <<"2", "0", "2", "5", "-", "1", "1", "-", "0", "2", "T", "1", "0", ":", "0", "0", ":",
      "0", "0", "+", "0", "0", ":", "0", "0">>

\* a list of n snapshots
snapshot_list(n) == json_array([k \in 1..n |-> json_object([id |-> py_int(FALSE, nat(k))])])

\* the videos of a large document: with and without a date, a number of views
\* and a list of snapshots
SampleVideos ==
    {json_object([id |-> py_str(id_first), views_count |-> py_int(FALSE, nat(5)),
                  video_created_at |-> py_str(text_day_one), snapshots |-> snapshot_list(2)]),
     json_object([id |-> py_str(id_second), views_count |-> py_int(FALSE, nat(3)),
                  video_created_at |-> py_str(text_day_one_later),
                  snapshots |-> snapshot_list(0)]),
     json_object([id |-> py_str(id_short), views_count |-> py_int(FALSE, nat(7)),
                  video_created_at |-> py_str(text_day_two)]),
     json_object([id |-> py_str(id_word), views_count |-> py_int(FALSE, nat(1)),
                  snapshots |-> snapshot_list(3)]),
     json_object([id |-> py_str(id_line_break)]),
     json_object([id |-> py_str(text_creator), views_count |-> py_int(FALSE, nat(9)),
                  snapshots |-> snapshot_list(1)])}

\* the calls of _select_sample_videos: up to one video more than asked for
SampleInputs ==
    [videos : lists_of(SampleVideos, MaxSamples + 1), max_samples : 0..MaxSamples]

\* a document of more videos than a sample holds
document_large ==
    json_object([videos |-> json_array(<<
        json_object([id |-> py_str(id_second), views_count |-> py_int(FALSE, nat(1234567)),
                     video_created_at |-> py_str(text_day_one),
                     snapshots |-> snapshot_list(1)]),
        json_object([id |-> py_str(id_first), views_count |-> py_int(FALSE, nat(5)),
                     video_created_at |-> py_str(text_day_one_later),
                     snapshots |-> snapshot_list(3)]),
        json_object([id |-> py_str(id_word), views_count |-> py_int(FALSE, nat(7)),
                     video_created_at |-> py_str(text_day_two)]),
        json_object([id |-> py_str(id_short), views_count |-> py_int(FALSE, nat(9)),
                     snapshots |-> snapshot_list(1)])>>)])

\* the documents a context is prepared from
PrepareDocuments ==
    {json_object([videos |-> json_array(l)]) : l \in lists_of(SampleVideos, MaxVideos)}
        \cup {document_one, document_two, document_large, json_array(<<>>), py_none,
              json_object([video |-> json_array(<<>>)])}

\* the sizes a caller of _prepare_data_context allows
PrepareSizes == {0, 16, 256, 1024, DefaultMaxSize}

PrepareInputs == [data : PrepareDocuments, max_size : PrepareSizes]


-----------------------------------------------------------------------------
(* The core as a state machine: one question at a time, each await of the  *)
(* code a state in which the environment answers                           *)

\* the replies of the model on the store path
Responses ==
    {choices(s) : s \in
        {reply_prefix_sql \o stmt_count_videos \o <<";">>,
         reply_fence_open \o stmt_sum_delta_views \o reply_fence_close,
         reply_prefix_here \o stmt_max_views,
         stmt_count_videos \o <<";">>,
         <<"S">> \o lower(Tail(stmt_sum_views)),
         stmt_two, reply_delete, reply_no, <<>>}}
    \cup {[shape |-> "attr", content |-> <<>>]}

\* the replies of the model on the file path
FileResponses ==
    {choices(s) : s \in {reply_views, reply_result, reply_no, reply_product, reply_latex, <<>>}}
    \cup {[shape |-> "other", content |-> <<>>]}

\* the objects bot.main constructs, no handler running
InitObjects ==
    /\ pc = "idle"
    /\ question = NoValue
    /\ prompt = NoValue
    /\ sql_query = NoValue
    /\ steps = <<>>
    /\ chats = 0
    /\ queried = <<>>
    /\ outcome = NoValue
    /\ pool = FALSE
    /\ current_data = py_none
    /\ cached_file_path = py_none
    /\ cached_file_name = py_none
    /\ cache_dir = {}
    /\ metadata = NoMetadata
    /\ pools = <<>>
    /\ analytics_pool = 0
    /\ polling = TRUE
    /\ answers = [kept |-> NoValue, last |-> NoValue]
    /\ process = 0
    /\ alive = {}
    /\ spawned = 0
    /\ threads = [main |-> thread_at("start"), observer |-> thread_at("idle")]

InitCore ==
    /\ InitObjects
    /\ handlers = <<>>

Init ==
    /\ fn = "none"
    /\ arg = NoValue
    /\ called = FALSE
    /\ ret = NoValue
    /\ InitCore

\* VideoAnalytics.answer_question up to the call of the model in generate_sql
AnswerQuestion(q) ==
    /\ pc = "idle"
    /\ pc' = "generate_sql"
    /\ question' = q
    /\ prompt' = _normalize_query(q)
    /\ sql_query' = NoValue
    /\ steps' = <<"generate_sql">>
    /\ chats' = 1
    /\ queried' = <<>>
    /\ outcome' = NoValue
    /\ UNCHANGED <<pool, current_data, file_vars, fn_vars, watch_vars, bot_vars, answers>>

\* the rest of generate_sql and answer_question up to the call of the store,
\* given what generate_sql makes of the call of the model
Generated(generated) ==
    LET decision == answer_question_generated(generated)
    IN  /\ steps' = steps \o decision.steps
        /\ sql_query' = IF generated.ok THEN generated.text ELSE NoValue
        /\ IF decision.next = "return"
           THEN /\ pc' = "idle"
                /\ outcome' = returned("VideoAnalytics.answer_question", decision.text)
           ELSE /\ pc' = "_execute_query"
                /\ outcome' = outcome
        /\ UNCHANGED <<question, prompt, chats, queried, pool, current_data, file_vars, fn_vars, watch_vars, bot_vars, answers>>

\* the model replies on the store path
ChatReturns(response) ==
    /\ pc = "generate_sql"
    /\ Generated(clean_response(response))

\* the call of the model raises on the store path
ChatRaises(error) ==
    /\ pc = "generate_sql"
    /\ Generated(chat_raised(error))

\* _execute_query, _format_number and the return of answer_question, given the
\* reply of the store; the pool is made by the first statement that needs it
StoreReturns(reply) ==
    LET result == _execute_query(reply)
    IN  /\ pc = "_execute_query"
        /\ reply.kind = "no_pool" => ~pool
        /\ pool' = IF reply.kind = "no_pool" THEN pool ELSE TRUE
        /\ queried' = IF reply.kind = "no_pool" THEN queried ELSE queried \o <<sql_query>>
        /\ steps' = IF result.ok THEN steps \o <<"_format_number">> ELSE steps
        /\ pc' = "idle"
        /\ outcome' = returned("VideoAnalytics.answer_question",
                               answer_question_executed(result))
        /\ UNCHANGED <<question, prompt, sql_query, chats, current_data, file_vars, fn_vars, watch_vars, bot_vars, answers>>

\* the FileAnalyzer and the cache directory as one record
analyzer ==
    [current_data |-> current_data, cached_file_path |-> cached_file_path,
     cached_file_name |-> cached_file_name, cache_dir |-> cache_dir,
     metadata |-> metadata]

\* the FileAnalyzer and the cache directory become st
Becomes(st) ==
    /\ current_data' = st.current_data
    /\ cached_file_path' = st.cached_file_path
    /\ cached_file_name' = st.cached_file_name
    /\ cache_dir' = st.cache_dir
    /\ metadata' = st.metadata

\* FileAnalyzer.load_json_file(file_path, cache) on an uploaded file that
\* holds data, the write of the cache failing as failure says
LoadJsonFile(data, cache, failure) ==
    LET loaded == load_json_file_into(analyzer, UploadPath(data), cache, failure)
    IN  /\ pc = "idle"
        /\ outcome' = loaded.outcome
        /\ Becomes(loaded.st)
        /\ UNCHANGED <<pc, question, prompt, sql_query, steps, chats, queried, pool, fn_vars, watch_vars, bot_vars, answers>>

\* FileAnalyzer.clear_data
ClearData(fails) ==
    LET cleared == clear_data(analyzer, fails)
    IN  /\ pc = "idle"
        /\ outcome' = cleared.outcome
        /\ Becomes(cleared.st)
        /\ UNCHANGED <<pc, question, prompt, sql_query, steps, chats, queried, pool, fn_vars, watch_vars, bot_vars, answers>>

\* FileAnalyzer.get_cached_file_info
GetCachedFileInfo ==
    /\ pc = "idle"
    /\ outcome' = get_cached_file_info(analyzer)
    /\ UNCHANGED <<pc, question, prompt, sql_query, steps, chats, queried, pool,
                   current_data, file_vars, fn_vars, watch_vars, bot_vars, answers>>

\* bot.main in a new process: a new VideoAnalytics, a new FileAnalyzer and
\* load_cached_file; of the state before, the cache directory remains
Main(fails) ==
    LET restored == load_cached_file(new_analyzer(analyzer), fails)
    IN  /\ pc' = "idle"
        /\ question' = NoValue
        /\ prompt' = NoValue
        /\ sql_query' = NoValue
        /\ steps' = <<>>
        /\ chats' = 0
        /\ queried' = <<>>
        /\ pool' = FALSE
        /\ outcome' = restored.outcome
        /\ Becomes(restored.st)
        /\ handlers' = [t \in DOMAIN handlers |-> idle_handler]
        /\ pools' = <<>>
        /\ analytics_pool' = 0
        /\ polling' = TRUE
        /\ UNCHANGED <<fn_vars, watch_vars, answers>>

\* FileAnalyzer.answer_question up to the call of the model
FileAnswerQuestion(q) ==
    /\ pc = "idle"
    /\ question' = q
    /\ sql_query' = NoValue
    /\ steps' = <<>>
    /\ queried' = <<>>
    /\ IF current_data = py_none
       THEN /\ pc' = "idle"
            /\ prompt' = NoValue
            /\ chats' = 0
            /\ outcome' = raised("FileAnalyzer.answer_question", "ValueError", msgNoData)
       ELSE /\ pc' = "chat"
            /\ prompt' = q
            /\ chats' = 1
            /\ outcome' = NoValue
    /\ UNCHANGED <<pool, current_data, file_vars, fn_vars, watch_vars, bot_vars, answers>>

\* the model replies on the file path
FileChatReturns(response) ==
    /\ pc = "chat"
    /\ pc' = "idle"
    /\ outcome' = file_answer_question_replied(response)
    /\ UNCHANGED <<question, prompt, sql_query, steps, chats, queried, pool, current_data,
                   file_vars, fn_vars, watch_vars, bot_vars, answers>>

\* the call of the model raises on the file path
FileChatRaises(error) ==
    /\ pc = "chat"
    /\ pc' = "idle"
    /\ outcome' = raised("FileAnalyzer.answer_question", "Exception",
                         msgQuestionError \o error)
    /\ UNCHANGED <<question, prompt, sql_query, steps, chats, queried, pool, current_data,
                   file_vars, fn_vars, watch_vars, bot_vars, answers>>

Next ==
    \/ \E q \in Questions : AnswerQuestion(q)
    \/ \E response \in Responses : ChatReturns(response)
    \/ \E error \in ChatErrors : ChatRaises(error)
    \/ \E reply \in StoreReplies : StoreReturns(reply)
    \/ \E data \in Files : LoadJsonFile(data, FALSE, "none")
    \/ \E fails \in ClearFailures : ClearData(fails)
    \/ \E q \in Questions : FileAnswerQuestion(q)
    \/ \E response \in FileResponses : FileChatReturns(response)
    \/ \E error \in ChatErrors : FileChatRaises(error)

Spec == Init /\ [][Next]_vars

-----------------------------------------------------------------------------
(* The file path with its cache: uploads, clears, questions and restarts   *)
(* of the process, the writes and deletions of the cache failing or not    *)

\* the questions and the replies of the model taken on this path
FileQuestions == {question_total, question_sum}

FewFileResponses == {choices(reply_views), choices(reply_no)}

NextFile ==
    \/ \E data \in Files, failure \in SaveFailures : LoadJsonFile(data, TRUE, failure)
    \/ \E fails \in ClearFailures : ClearData(fails)
    \/ GetCachedFileInfo
    \/ \E fails \in ClearFailures : Main(fails)
    \/ \E q \in FileQuestions : FileAnswerQuestion(q)
    \/ \E response \in FewFileResponses : FileChatReturns(response)
    \/ \E error \in ChatErrors : FileChatRaises(error)

SpecFile == Init /\ [][NextFile]_vars


-----------------------------------------------------------------------------
(* Function-level specifications: one function applied once to an input    *)

InitGenerateSql ==
    /\ fn = "generate_sql" /\ arg \in GenerateInputs
    /\ called = FALSE /\ ret = NoValue /\ InitCore

\* generate_sql, given the reply of the model
CallGenerateSql ==
    /\ fn = "generate_sql" /\ ~called
    /\ called' = TRUE
    /\ ret' = clean_response(arg)
    /\ UNCHANGED <<fn, arg, core_vars, watch_vars>>

SpecGenerateSql == InitGenerateSql /\ [][CallGenerateSql]_vars

InitValidateSql ==
    /\ fn = "_validate_sql" /\ arg \in ValidateInputs
    /\ called = FALSE /\ ret = NoValue /\ InitCore

CallValidateSql ==
    /\ fn = "_validate_sql" /\ ~called
    /\ called' = TRUE
    /\ ret' = _validate_sql(arg)
    /\ UNCHANGED <<fn, arg, core_vars, watch_vars>>

SpecValidateSql == InitValidateSql /\ [][CallValidateSql]_vars

InitFormatNumber ==
    /\ fn = "_format_number" /\ arg \in Numbers
    /\ called = FALSE /\ ret = NoValue /\ InitCore

CallFormatNumber ==
    /\ fn = "_format_number" /\ ~called
    /\ called' = TRUE
    /\ ret' = _format_number(arg)
    /\ UNCHANGED <<fn, arg, core_vars, watch_vars>>

SpecFormatNumber == InitFormatNumber /\ [][CallFormatNumber]_vars

InitExecuteQuery ==
    /\ fn = "_execute_query" /\ arg \in StoreResults
    /\ called = FALSE /\ ret = NoValue /\ InitCore

\* _execute_query and _format_number, given the result the store returned
CallExecuteQuery ==
    /\ fn = "_execute_query" /\ ~called
    /\ called' = TRUE
    /\ ret' = execute_and_format(arg)
    /\ UNCHANGED <<fn, arg, core_vars, watch_vars>>

SpecExecuteQuery == InitExecuteQuery /\ [][CallExecuteQuery]_vars

InitExtractNumber ==
    /\ fn = "_extract_number" /\ arg \in ExtractInputs
    /\ called = FALSE /\ ret = NoValue /\ InitCore

CallExtractNumber ==
    /\ fn = "_extract_number" /\ ~called
    /\ called' = TRUE
    /\ ret' = _extract_number(arg).text
    /\ UNCHANGED <<fn, arg, core_vars, watch_vars>>

SpecExtractNumber == InitExtractNumber /\ [][CallExtractNumber]_vars

InitNormalizeQuery ==
    /\ fn = "_normalize_query" /\ arg \in NormalizeInputs
    /\ called = FALSE /\ ret = NoValue /\ InitCore

CallNormalizeQuery ==
    /\ fn = "_normalize_query" /\ ~called
    /\ called' = TRUE
    /\ ret' = _normalize_query(arg)
    /\ UNCHANGED <<fn, arg, core_vars, watch_vars>>

SpecNormalizeQuery == InitNormalizeQuery /\ [][CallNormalizeQuery]_vars

InitValidateDataStructure ==
    /\ fn = "_validate_data_structure" /\ arg \in Documents
    /\ called = FALSE /\ ret = NoValue /\ InitCore

CallValidateDataStructure ==
    /\ fn = "_validate_data_structure" /\ ~called
    /\ called' = TRUE
    /\ ret' = _validate_data_structure(arg)
    /\ UNCHANGED <<fn, arg, core_vars, watch_vars>>

SpecValidateDataStructure == InitValidateDataStructure /\ [][CallValidateDataStructure]_vars

InitSelectSampleVideos ==
    /\ fn = "_select_sample_videos" /\ arg \in SampleInputs
    /\ called = FALSE /\ ret = NoValue /\ InitCore

CallSelectSampleVideos ==
    /\ fn = "_select_sample_videos" /\ ~called
    /\ called' = TRUE
    /\ ret' = _select_sample_videos(arg.videos, arg.max_samples)
    /\ UNCHANGED <<fn, arg, core_vars, watch_vars>>

SpecSelectSampleVideos == InitSelectSampleVideos /\ [][CallSelectSampleVideos]_vars

InitPrepareDataContext ==
    /\ fn = "_prepare_data_context" /\ arg \in PrepareInputs
    /\ called = FALSE /\ ret = NoValue /\ InitCore

CallPrepareDataContext ==
    /\ fn = "_prepare_data_context" /\ ~called
    /\ called' = TRUE
    /\ ret' = _prepare_data_context(arg.data, arg.max_size)
    /\ UNCHANGED <<fn, arg, core_vars, watch_vars>>

SpecPrepareDataContext == InitPrepareDataContext /\ [][CallPrepareDataContext]_vars


-----------------------------------------------------------------------------
(* The bot with concurrent handlers *)

\* the replies of the model taken here, and what the code makes of each
BotResponses == {choices(reply_prefix_here \o stmt_max_views), choices(stmt_two)}

\* what generate_sql returns for each
generated_replies == [response \in BotResponses |-> clean_response(response)]

store_decisions ==
    [response \in BotResponses |-> answer_question_generated(generated_replies[response])]

BotFileResponses == {choices(reply_views), choices(reply_no)}

file_outcomes ==
    [response \in BotFileResponses |-> file_answer_question_replied(response)]

Handlers == DOMAIN handlers

\* no suspended handler holds the event loop
loop_free == \A u \in Handlers : ~blocks_event_loop(handlers[u])

\* the handlers suspended in create_pool
creating == {u \in Handlers : handlers[u].pc = "create_pool"}

\* a message takes the first handler that is not running: the handlers are
\* interchangeable
first_idle(t) == \A u \in 1..(t - 1) : handlers[u].pc # "idle"

\* handle_message, handle_message_with_query up to `await message.answer`
HandleMessage(t) ==
    /\ polling /\ loop_free
    /\ handlers[t].pc = "idle"
    /\ handlers' = [handlers EXCEPT ![t] = routed(analyzer)]
    /\ UNCHANGED <<pools, analytics_pool, polling>>
    /\ UNCHANGED <<pc, question, prompt, sql_query, steps, chats, queried, outcome, pool,
                   current_data, file_vars, fn_vars, watch_vars, answers>>

\* from there to the call of the model, which may never return
StartAnswer(t, hang) ==
    /\ loop_free
    /\ handlers[t].pc = "processing_msg"
    /\ handlers' =
          [handlers EXCEPT ![t] =
              IF @.route = "file" THEN file_question_started(@, current_data, hang)
              ELSE [@ EXCEPT !.pc = "generate_sql", !.stuck = hang]]
    /\ UNCHANGED <<pools, analytics_pool, polling>>
    /\ UNCHANGED <<pc, question, prompt, sql_query, steps, chats, queried, outcome, pool,
                   current_data, file_vars, fn_vars, watch_vars, answers>>

\* the model replies on the file path, or its call raises
FileReply(t, replied) ==
    /\ \A u \in Handlers \ {t} : ~blocks_event_loop(handlers[u])
    /\ handlers[t].pc = "chat" /\ ~handlers[t].stuck
    /\ handlers' = [handlers EXCEPT ![t] = file_question_replied(@, current_data, replied)]
    /\ UNCHANGED <<pools, analytics_pool, polling>>
    /\ UNCHANGED <<pc, question, prompt, sql_query, steps, chats, queried, outcome, pool,
                   current_data, file_vars, fn_vars, watch_vars, answers>>

\* the model replies on the store path, or its call raises: generate_sql,
\* _validate_sql and _execute_query up to its first await
SqlReply(t, decision) ==
    /\ \A u \in Handlers \ {t} : ~blocks_event_loop(handlers[u])
    /\ handlers[t].pc = "generate_sql" /\ ~handlers[t].stuck
    /\ IF decision.next = "return"
       THEN /\ handlers' = [handlers EXCEPT ![t].pc = "idle"]
       ELSE /\ analytics_pool = 0 => Len(pools) + Cardinality(creating) < MaxPools
            /\ handlers' = [handlers EXCEPT ![t] = pool_requested(@, analytics_pool)]
    /\ UNCHANGED <<pools, analytics_pool, polling>>
    /\ UNCHANGED <<pc, question, prompt, sql_query, steps, chats, queried, outcome, pool,
                   current_data, file_vars, fn_vars, watch_vars, answers>>

\* asyncpg.create_pool returns: _get_pool binds self.pool and returns it,
\* _execute_query calls pool.acquire()
PoolCreated(t) ==
    /\ loop_free
    /\ handlers[t].pc = "create_pool"
    /\ pools' = Append(pools, new_pool)
    /\ analytics_pool' = Len(pools) + 1
    /\ handlers' = [handlers EXCEPT ![t] = pool_requested(@, Len(pools) + 1)]
    /\ UNCHANGED polling
    /\ UNCHANGED <<pc, question, prompt, sql_query, steps, chats, queried, outcome, pool,
                   current_data, file_vars, fn_vars, watch_vars, answers>>

\* asyncpg.create_pool raises: answer_question returns its error text
PoolRefused(t) ==
    /\ loop_free
    /\ handlers[t].pc = "create_pool"
    /\ handlers' = [handlers EXCEPT ![t].pc = "idle"]
    /\ UNCHANGED <<pools, analytics_pool, polling>>
    /\ UNCHANGED <<pc, question, prompt, sql_query, steps, chats, queried, outcome, pool,
                   current_data, file_vars, fn_vars, watch_vars, answers>>

\* pool.acquire() returns a connection that is free
Acquire(t) ==
    LET p == handlers[t].pool
    IN  /\ loop_free
        /\ handlers[t].pc = "acquire"
        /\ pools[p].busy < max_size
        /\ pools' = [pools EXCEPT ![p].busy = @ + 1]
        /\ handlers' = [handlers EXCEPT ![t].pc = "fetch"]
        /\ UNCHANGED <<analytics_pool, polling>>
        /\ UNCHANGED <<pc, question, prompt, sql_query, steps, chats, queried, outcome,
                       pool, current_data, file_vars, fn_vars, watch_vars, answers>>

\* connection.fetch returns or raises: `async with` gives the connection
\* back, answer_question returns
FetchEnds(t, failed) ==
    /\ loop_free
    /\ handlers[t].pc = "fetch"
    /\ pools' = released(pools, handlers[t].pool, failed)
    /\ handlers' = [handlers EXCEPT ![t].pc = "idle"]
    /\ UNCHANGED <<analytics_pool, polling>>
    /\ UNCHANGED <<pc, question, prompt, sql_query, steps, chats, queried, outcome, pool,
                   current_data, file_vars, fn_vars, watch_vars, answers>>

\* the end of bot.main, the polling over: VideoAnalytics.close
Close ==
    /\ polling
    /\ \A u \in Handlers : handlers[u].pc = "idle"
    /\ polling' = FALSE
    /\ analytics_pool' = 0
    /\ pools' = IF analytics_pool = 0 THEN pools
                ELSE [pools EXCEPT ![analytics_pool].closed = TRUE]
    /\ UNCHANGED handlers
    /\ UNCHANGED <<pc, question, prompt, sql_query, steps, chats, queried, outcome, pool,
                   current_data, file_vars, fn_vars, watch_vars, answers>>

\* handle_document: load_json_file(tmp_path, cache=True)
HandleDocument(data, failure) ==
    /\ polling /\ loop_free
    /\ LoadJsonFile(data, TRUE, failure)

\* cmd_clear_file
CmdClearFile(fails) ==
    /\ polling /\ loop_free
    /\ current_data # py_none
    /\ ClearData(fails)

\* one step of the question of handler t, its arrival apart
Progress(t) ==
    \/ \E hang \in BOOLEAN : StartAnswer(t, hang)
    \/ \E response \in BotFileResponses : FileReply(t, file_outcomes[response])
    \/ \E error \in ChatErrors :
          FileReply(t, raised("FileAnalyzer.answer_question", "Exception",
                              msgQuestionError \o error))
    \/ \E response \in BotResponses : SqlReply(t, store_decisions[response])
    \/ \E error \in ChatErrors : SqlReply(t, answer_question_generated(chat_raised(error)))
    \/ PoolCreated(t)
    \/ PoolRefused(t)
    \/ Acquire(t)
    \/ \E failed \in BOOLEAN : FetchEnds(t, failed)

InitHandlers(n) ==
    /\ fn = "none" /\ arg = NoValue /\ called = FALSE /\ ret = NoValue
    /\ InitObjects
    /\ handlers = [t \in 1..n |-> idle_handler]

-----------------------------------------------------------------------------
(* The bot: questions, uploads and /clear_file interleaved *)

BotFiles == {document_one, document_two}

InitBot == InitHandlers(MaxHandlers)

NextBot ==
    \/ \E t \in Handlers : first_idle(t) /\ HandleMessage(t)
    \/ \E t \in Handlers : Progress(t)
    \/ \E data \in BotFiles, failure \in {"none", "copy2"} : HandleDocument(data, failure)
    \/ CmdClearFile(NoFailure)
    \/ Close

SpecBot == InitBot /\ [][NextBot]_vars

-----------------------------------------------------------------------------
(* Questions beside one whose call of the model never returns *)

InitStuck == InitHandlers(MaxHandlers + 1)

NextStuck ==
    \/ \E t \in Handlers : first_idle(t) /\ HandleMessage(t)
    \/ \E t \in Handlers : Progress(t)
    \/ HandleDocument(document_one, "none")
    \/ Close

\* the scheduling of the event loop: a handler that can take its next step
\* takes it; a call of the model that is not stuck, create_pool, acquire and
\* fetch come to an end
SpecStuckFair ==
    /\ InitStuck /\ [][NextStuck]_vars
    /\ \A t \in 1..(MaxHandlers + 1) : WF_vars(Progress(t))

-----------------------------------------------------------------------------
(* The store path under load: more questions than the pool has connections *)

PoolHandlers == max_size + 1

InitPool == InitHandlers(PoolHandlers)

\* a question on the store path whose statement _validate_sql accepted, taken
\* from its arrival to the first await of _execute_query: the steps before
\* it touch neither the pools nor self.pool
ExecuteQuery(t) ==
    /\ polling /\ loop_free
    /\ handlers[t].pc = "idle" /\ first_idle(t)
    /\ analytics_pool = 0 => Len(pools) + Cardinality(creating) < MaxPools
    /\ handlers' = [handlers EXCEPT ![t] = pool_requested(routed(analyzer), analytics_pool)]
    /\ UNCHANGED <<pools, analytics_pool, polling>>
    /\ UNCHANGED <<pc, question, prompt, sql_query, steps, chats, queried, outcome, pool,
                   current_data, file_vars, fn_vars, watch_vars, answers>>

NextPool ==
    \/ \E t \in Handlers : ExecuteQuery(t)
    \/ \E t \in Handlers : PoolCreated(t)
    \/ \E t \in Handlers : PoolRefused(t)
    \/ \E t \in Handlers : Acquire(t)
    \/ \E t \in Handlers, failed \in BOOLEAN : FetchEnds(t, failed)
    \/ Close

SpecPool == InitPool /\ [][NextPool]_vars

-----------------------------------------------------------------------------
(* The store path with its pool exhausted: the questions reach _get_pool    *)
(* one after the other, so that there is one pool, and max_size + 1 of them *)
(* ask for a connection                                                    *)

\* a question that reaches _get_pool while no other is suspended in it
ExecuteQueryAlone(t) ==
    /\ analytics_pool = 0 => creating = {}
    /\ ExecuteQuery(t)

NextQueue ==
    \/ \E t \in Handlers : ExecuteQueryAlone(t)
    \/ \E t \in Handlers : PoolCreated(t)
    \/ \E t \in Handlers : PoolRefused(t)
    \/ \E t \in Handlers : Acquire(t)
    \/ \E t \in Handlers, failed \in BOOLEAN : FetchEnds(t, failed)
    \/ Close

\* the scheduling of the store path: create_pool ends, a statement that
\* executes ends, and a pool does not pass over a waiting handler for ever
SpecQueueFair ==
    /\ InitPool /\ [][NextQueue]_vars
    /\ \A t \in 1..PoolHandlers :
          /\ WF_vars(PoolCreated(t) \/ PoolRefused(t))
          /\ WF_vars(\E failed \in BOOLEAN : FetchEnds(t, failed))
          /\ SF_vars(Acquire(t))


-----------------------------------------------------------------------------
(* Questions resolved one after the other, two of them kept for comparison: *)
(* answers.last is the question resolved last and answers.kept one resolved *)
(* before it, each with whether it was the first question asked            *)

MemoryQuestions == {question_total, question_sum}

MemoryReplies ==
    {rows(<< <<py_int(FALSE, nat(1))>> >>), [kind |-> "no_pool", error |-> err_connection]}

\* the prompts generate_sql makes of the questions
normalized_queries == [q \in MemoryQuestions |-> _normalize_query(q)]

no_reply == [kind |-> "none"]

\* the question resolved, what it was resolved from, and whether any came
\* before it
resolved(q, model, source, result) ==
    [question |-> q, model |-> model, source |-> source, result |-> result,
     first |-> question = NoValue]

\* the record of the questions resolved, this one added
Remembers(entry) ==
    answers' \in [kept : {answers.kept, entry}, last : {entry}]

\* handle_message with no document loaded: VideoAnalytics.answer_question
\* from the call to the return, the model replying response and the store
\* replying reply
ResolveFromStore(q, response, reply) ==
    LET generated == generated_replies[response]
        decision == store_decisions[response]
        executes == decision.next # "return"
        result == _execute_query(reply)
        text == IF executes THEN answer_question_executed(result) ELSE decision.text
    IN  /\ pc = "idle"
        /\ ~use_file_analyzer(analyzer)
        /\ executes /\ reply.kind = "no_pool" => ~pool
        /\ ~executes => reply = no_reply
        /\ executes => reply # no_reply
        /\ question' = q
        /\ prompt' = normalized_queries[q]
        /\ sql_query' = IF generated.ok THEN generated.text ELSE NoValue
        /\ steps' = <<"generate_sql">> \o decision.steps
                       \o (IF executes /\ result.ok THEN <<"_format_number">> ELSE <<>>)
        /\ chats' = 1
        /\ queried' = IF executes /\ reply.kind # "no_pool" THEN <<generated.text>> ELSE <<>>
        /\ pool' = IF executes /\ reply.kind # "no_pool" THEN TRUE ELSE pool
        /\ outcome' = returned("VideoAnalytics.answer_question", text)
        /\ Remembers(resolved(q, response, reply, outcome'))
        /\ UNCHANGED <<pc, current_data, file_vars, fn_vars, watch_vars, bot_vars>>

\* handle_message with a document loaded: FileAnalyzer.answer_question from
\* the call to the return
ResolveFromFile(q, response) ==
    /\ pc = "idle"
    /\ use_file_analyzer(analyzer)
    /\ question' = q
    /\ prompt' = q
    /\ sql_query' = NoValue
    /\ steps' = <<>>
    /\ chats' = 1
    /\ queried' = <<>>
    /\ outcome' = file_outcomes[response]
    /\ Remembers(resolved(q, response, current_data, outcome'))
    /\ UNCHANGED <<pc, pool, current_data, file_vars, fn_vars, watch_vars, bot_vars>>

NextMemory ==
    \/ \E q \in MemoryQuestions, response \in BotResponses,
          reply \in MemoryReplies \cup {no_reply} : ResolveFromStore(q, response, reply)
    \/ \E q \in MemoryQuestions, response \in BotFileResponses : ResolveFromFile(q, response)
    \/ \E data \in BotFiles : LoadJsonFile(data, FALSE, "none")
    \/ ClearData(NoFailure)

SpecMemory == Init /\ [][NextMemory]_vars


-----------------------------------------------------------------------------
(* watch_bot.main: the observer is started, then the bot, then the loop    *)

\* the threads inside reload_bot
reloading == {t \in WatchThreads : threads[t].pc \notin {"start", "loop", "idle"}}

\* a reload_bot may begin: the children it and the ones under way start stay
\* within MaxSpawned
may_reload == spawned + Cardinality(reloading) < MaxSpawned

Enter(t) == threads' = [threads EXCEPT ![t].pc = "check"]

\* handler.start_bot() in main
StartBot ==
    /\ threads.main.pc = "start"
    /\ Enter("main")
    /\ UNCHANGED <<process, alive, spawned, fn_vars, core_vars>>

\* the loop of main finds handler.process exited and calls reload_bot
Poll ==
    /\ threads.main.pc = "loop"
    /\ has_exited(process, alive)
    /\ may_reload
    /\ Enter("main")
    /\ UNCHANGED <<process, alive, spawned, fn_vars, core_vars>>

\* on_modified in the observer thread, for a change that is not ignored
OnModified ==
    /\ threads.observer.pc = "idle"
    /\ may_reload
    /\ Enter("observer")
    /\ UNCHANGED <<process, alive, spawned, fn_vars, core_vars>>

\* reload_bot: if self.process and self.process.poll() is None
Check(t) ==
    /\ threads[t].pc = "check"
    /\ threads' = [threads EXCEPT ![t].pc = reload_bot_from(process, alive)]
    /\ UNCHANGED <<process, alive, spawned, fn_vars, core_vars>>

\* reload_bot: self.process.terminate(); the child ends
Terminate(t) ==
    /\ threads[t].pc = "terminate"
    /\ alive' = alive \ {process}
    /\ threads' = [threads EXCEPT ![t].pc = "wait"]
    /\ UNCHANGED <<process, spawned, fn_vars, core_vars>>

\* reload_bot: self.process.wait(timeout=5), kill() and wait() after the
\* timeout: it returns when the child self.process holds by then has ended
Wait(t) ==
    /\ threads[t].pc = "wait"
    /\ alive' = alive \ {process}
    /\ threads' = [threads EXCEPT ![t].pc = "popen"]
    /\ UNCHANGED <<process, spawned, fn_vars, core_vars>>

\* reload_bot: subprocess.Popen([...]) returns, the child runs
Popen(t) ==
    /\ threads[t].pc = "popen"
    /\ spawned' = spawned + 1
    /\ alive' = alive \cup {spawned + 1}
    /\ threads' = [threads EXCEPT ![t] = [pc |-> "assign", started |-> spawned + 1]]
    /\ UNCHANGED <<process, fn_vars, core_vars>>

\* reload_bot: self.process = the child Popen returned
Assign(t) ==
    /\ threads[t].pc = "assign"
    /\ process' = threads[t].started
    /\ threads' = [threads EXCEPT ![t] = thread_at(resting(t))]
    /\ UNCHANGED <<alive, spawned, fn_vars, core_vars>>

\* a bot process ends by itself
Exits(child) ==
    /\ child \in alive
    /\ alive' = alive \ {child}
    /\ UNCHANGED <<process, spawned, threads, fn_vars, core_vars>>

NextWatch ==
    \/ StartBot
    \/ Poll
    \/ OnModified
    \/ \E t \in WatchThreads : Check(t)
    \/ \E t \in WatchThreads : Terminate(t)
    \/ \E t \in WatchThreads : Wait(t)
    \/ \E t \in WatchThreads : Popen(t)
    \/ \E t \in WatchThreads : Assign(t)
    \/ \E child \in 1..MaxSpawned : Exits(child)

SpecWatch == Init /\ [][NextWatch]_vars


-----------------------------------------------------------------------------
(* Properties                                                              *)

\* a text made of decimal digits only, a minus sign before them or none
is_integer_text(s) ==
    /\ s # <<>>
    /\ isdigit(IF s[1] = "-" THEN Tail(s) ELSE s)

\* C1: when the reply of the model is one SELECT statement, a semicolon or none
\* at its end and white space or none around it, generate_sql returns that
\* statement, whole, and does not fail.
C1_PlainReplyReturned ==
    called =>
        \A s \in SelectStatements :
            (arg.shape = "choices" /\ arg.content \in padded(terminated({s})))
                => ret = [ok |-> TRUE, text |-> s]

IdentifierChars ==
    Digits \cup {"_"} \cup {LowerLetters[i] : i \in LetterIndex}
        \cup {UpperLetters[i] : i \in LetterIndex}

\* the word w, in any letter case, stands in s as a word of its own: no letter,
\* digit or underscore touches it
uses_word(s, w) ==
    \E p \in 0..(Len(s) - Len(w)) :
        /\ occurs_at(upper(s), w, p)
        /\ p = 0 \/ s[p] \notin IdentifierChars
        /\ p + Len(w) = Len(s) \/ s[p + Len(w) + 1] \notin IdentifierChars

\* from_videos: the text 'FROM VIDEOS'
from_videos ==
    <<"F", "R", "O", "M", " ", "V", "I", "D", "E", "O", "S">>
\* from_video_snapshots: the text 'FROM VIDEO_SNAPSHOTS'
from_video_snapshots ==
    <<"F", "R", "O", "M", " ", "V", "I", "D", "E", "O", "_", "S", "N", "A", "P", "S", "H",
      "O", "T", "S">>

\* a statement that starts with SELECT, reads from videos or video_snapshots
\* and uses no denylisted word as a keyword
is_plain_select(s) ==
    /\ startswith(upper(s), kwSELECT)
    /\ uses_word(s, kwSELECT)
    /\ uses_word(s, from_videos) \/ uses_word(s, from_video_snapshots)
    /\ \A i \in DOMAIN forbidden : ~uses_word(s, forbidden[i])

\* C2: _validate_sql returns true for every statement that starts with SELECT,
\* reads from videos or video_snapshots and uses no denylisted word as a
\* keyword, the example statements of the generation prompt among them.
C2_PlainSelectAccepted ==
    called => (is_plain_select(arg) => ret = TRUE)

\* some denylisted word stands somewhere in s, in any letter case
has_denylisted(s) ==
    \E i \in DOMAIN forbidden :
        \E p \in 0..(Len(s) - Len(forbidden[i])) :
            \A j \in 1..Len(forbidden[i]) : upper_char(s[p + j]) = forbidden[i][j]

\* s, trimmed, starts with SELECT in any letter case
starts_with_select(s) ==
    LET body == strip(s)
    IN  /\ Len(body) >= Len(kwSELECT)
        /\ \A j \in 1..Len(kwSELECT) : upper_char(body[j]) = kwSELECT[j]

\* C3: _validate_sql returns false for every text that holds a denylisted word,
\* in any letter case and at any place, and for every text that, trimmed, does
\* not start with SELECT.
C3_DenylistedRejected ==
    called => ((has_denylisted(arg) \/ ~starts_with_select(arg)) => ret = FALSE)

\* C3 happens: a statement that starts with SELECT and holds a denylisted word
\* in lower case further on has been rejected
C3_Witness ==
    /\ called
    /\ arg = before_statement \o lower(forbidden[1]) \o after_table
    /\ ret = FALSE

AnswerEntryPoints == {"VideoAnalytics.answer_question", "FileAnalyzer.answer_question"}

\* C4: whatever an answer entry point returns is a text of decimal digits, a
\* minus sign before them or none; every failure is raised.
C4_OnlyNumbersReturned ==
    (outcome.kind = "returned" /\ outcome.of \in AnswerEntryPoints)
        => is_integer_text(outcome.text)

StepOrder == <<"generate_sql", "_validate_sql", "_execute_query", "_format_number">>

\* C5: on the store path the steps of a question come in the order generate,
\* validate, execute, each once at most; the model is called exactly once, the
\* store is sent one statement at most, and only one that _validate_sql
\* accepts; once the question has its outcome nothing more is pending.
C5_StepsOnceInOrder ==
    /\ \E n \in 0..Len(StepOrder) : steps = SubSeq(StepOrder, 1, n)
    /\ steps # <<>> => chats = 1
    /\ Len(queried) <= 1
    /\ \A i \in DOMAIN queried : _validate_sql(queried[i]) = TRUE
    /\ Len(queried) = 1 => (Len(steps) >= 3 /\ queried[1] = sql_query)
    /\ (steps # <<>> /\ outcome # NoValue) => pc = "idle"

\* C5 happens: a question went through every step and the store was sent its
\* statement
C5_Witness ==
    /\ pc = "idle"
    /\ steps = StepOrder
    /\ queried = <<sql_query>>
    /\ outcome.kind = "returned"


is_run_char(c) == c \in Digits \cup Whitespace

\* the runs of s: the stretches of digits and white space that no digit or
\* white space touches, each as its first and last position
runs(s) ==
    {r \in (DOMAIN s) \X (DOMAIN s) :
        /\ r[1] <= r[2]
        /\ \A i \in r[1]..r[2] : is_run_char(s[i])
        /\ r[1] = 1 \/ ~is_run_char(s[r[1] - 1])
        /\ r[2] = Len(s) \/ ~is_run_char(s[r[2] + 1])}

digits_of(s, r) == SelectSeq(SubSeq(s, r[1], r[2]), LAMBDA c : c \in Digits)

\* the run with the most digits, the earliest of them when several have as many
is_chosen_run(s, r) ==
    /\ r \in runs(s)
    /\ \A o \in runs(s) :
        /\ Len(digits_of(s, o)) <= Len(digits_of(s, r))
        /\ o[1] < r[1] => Len(digits_of(s, o)) < Len(digits_of(s, r))

\* the digits of the chosen run of s, "0" when s holds no digit
number_of_longest_run(s) ==
    IF \A i \in DOMAIN s : s[i] \notin Digits THEN text_zero
    ELSE digits_of(s, CHOOSE r \in runs(s) : is_chosen_run(s, r))

exact_integer_text(s) ==
    LET neg == s[1] = "-"
        body == IF neg THEN Tail(s) ELSE s
        point == find(body, <<".">>)
        whole == IF point = -1 THEN body ELSE slice(body, 0, point)
    IN  str_int(neg, nat_from_digits(whole))

\* C7: _format_number returns "0" for None; for every finite number, and every
\* text that writes one, the decimal digits of its integer part, exactly; "0"
\* for a text that writes no number.
C7_FormatIsExact ==
    called =>
        /\ arg.type = "NoneType" => ret = [ok |-> TRUE, text |-> text_zero]
        /\ (arg.type \in {"int", "float", "Decimal"} /\ arg.cls = "finite")
              => ret = [ok |-> TRUE, text |-> str_int(arg.neg, arg.mag)]
        /\ (arg.type = "str" /\ arg.text \in NumericTexts)
              => ret = [ok |-> TRUE, text |-> exact_integer_text(arg.text)]
        /\ (arg.type = "str" /\ arg.text \in NonNumericTexts)
              => ret = [ok |-> TRUE, text |-> text_zero]

\* the scalar of a result of the store, None when it has no row or no column
scalar_of(reply) ==
    IF reply.rows = <<>> \/ reply.rows[1] = <<>> THEN py_none ELSE reply.rows[1][1]

\* C8: whatever the store returned, _execute_query and then _format_number do
\* not raise: no row, NULL and a scalar that is no number give "0", a number
\* a double holds exactly gives its integer part.
C8_CoercionNeverRaises ==
    called =>
        LET x == scalar_of(arg)
        IN  /\ ret.ok
            /\ is_integer_text(ret.text)
            /\ (x.type \in {"NoneType", "object"}
                    \/ (x.type = "str" /\ x.text \in NonNumericTexts))
                  => ret.text = text_zero
            /\ (x.type \in {"int", "float", "Decimal"} /\ x.cls = "finite"
                    /\ round_to_double(x.mag) = x.mag)
                  => ret.text = str_int(x.neg, x.mag)

\* s holds a number written in groups with more than one space among its
\* digits: two digits with only white space between them, two characters of
\* it or more, or digits, white space, digits, white space, digits
has_spaced_groups(s) ==
    \E r \in (DOMAIN s) \X (DOMAIN s) :
        /\ r[1] < r[2]
        /\ s[r[1]] \in Digits /\ s[r[2]] \in Digits
        /\ \A i \in r[1]..r[2] : is_run_char(s[i])
        /\ Cardinality({i \in r[1]..r[2] : s[i] \in Whitespace}) > 1

\* C9: for every question without digit groups that more than one space
\* separates, _normalize_query returns its own output unchanged.
C9_NormalizeIdempotent ==
    called => (~has_spaced_groups(arg) => _normalize_query(ret) = ret)


\* a snapshot of the video with identifier id that breaks no rule
is_sound_snapshot(snapshot, id) ==
    /\ snapshot.type = "dict"
    /\ has_key(snapshot, "video_id")
    /\ snapshot.fields.video_id = py_str(id)
    /\ has_key(snapshot, "created_at")

\* a video whose own fields break no rule: an object with a string id of 36
\* characters in the form 8-4-4-4-12 and a creator_id, its snapshots, where it
\* has them, an array
has_sound_fields(video) ==
    /\ video.type = "dict"
    /\ has_key(video, "id")
    /\ video.fields.id.type = "str"
    /\ Len(video.fields.id.text) = 36
    /\ uuid_form(video.fields.id.text)
    /\ has_key(video, "creator_id")
    /\ has_key(video, "snapshots") => video.fields.snapshots.type = "list"

snapshots_in(video) ==
    IF has_key(video, "snapshots") THEN video.fields.snapshots.items ELSE <<>>

is_sound_video(video) ==
    /\ has_sound_fields(video)
    /\ \A j \in DOMAIN snapshots_in(video) :
        is_sound_snapshot(snapshots_in(video)[j], video.fields.id.text)

has_sound_root(data) ==
    /\ data.type = "dict"
    /\ has_key(data, "videos")
    /\ data.fields.videos.type = "list"
    /\ data.fields.videos.items # <<>>

is_sound_document(data) ==
    /\ has_sound_root(data)
    /\ \A i \in DOMAIN data.fields.videos.items : is_sound_video(data.fields.videos.items[i])

\* the message names video i, and snapshot j of it where j is not 0
names(message, i, j) ==
    IF j = 0
    THEN /\ contains(lower(message), lower(msgVideo) \o decimal_digits(nat(i)))
         /\ ~contains(message, msgSnapshot)
    ELSE contains(message, msgSnapshot \o decimal_digits(nat(j)) \o msgOfVideo
                               \o decimal_digits(nat(i)))

\* the message names the first violation of the videos in document order: the
\* first video that is not sound, and the first snapshot of it that is not
\* sound where the fields of the video itself are
names_first_violation(message, videos) ==
    LET i == CHOOSE x \in DOMAIN videos :
                 /\ ~is_sound_video(videos[x])
                 /\ \A y \in 1..(x - 1) : is_sound_video(videos[y])
        snapshots == snapshots_in(videos[i])
        j == CHOOSE x \in DOMAIN snapshots :
                 /\ ~is_sound_snapshot(snapshots[x], videos[i].fields.id.text)
                 /\ \A y \in 1..(x - 1) :
                        is_sound_snapshot(snapshots[y], videos[i].fields.id.text)
    IN  IF has_sound_fields(videos[i]) THEN names(message, i, j) ELSE names(message, i, 0)

\* C10: _validate_data_structure accepts a document exactly when it breaks no
\* structural rule (the root an object, videos an array that is not empty, each
\* video an object with a string id in the 8-4-4-4-12 hexadecimal form and a
\* creator_id, each snapshot an object with the video_id of its video and a
\* created_at); otherwise its message names the first violation in document
\* order by the 1-based index of the video and, for a snapshot, of the snapshot.
C10_AcceptsExactlySoundDocuments ==
    called =>
        /\ ret.valid <=> is_sound_document(arg)
        /\ (~ret.valid /\ has_sound_root(arg))
              => names_first_violation(ret.error_message, arg.fields.videos.items)


-----------------------------------------------------------------------------
(* Claims about the loaded file and its cache *)

\* the entry point whose call ended last
last_call == IF outcome = NoValue THEN "none" ELSE outcome.of

no_data_error == raised("FileAnalyzer.answer_question", "ValueError", msgNoData)

\* C11: whenever the last operation on the file is a clear_data, no data is
\* loaded (has_data() is false), and a question asked then ends at once with
\* the no-data error: the model is not called and nothing is left pending.
C11_ClearedThenNoData ==
    [][/\ last_call' = "clear_data" => current_data' = py_none
       /\ last_call = "clear_data" => pc' = "idle"
       /\ (last_call = "clear_data" /\ last_call' = "FileAnalyzer.answer_question")
            => (outcome' = no_data_error /\ chats' = 0)]_vars

\* C11 happens: a file was loaded and cached, then cleared, and the question
\* asked after that got the no-data error
C11_Witness ==
    /\ outcome = no_data_error
    /\ question \in FileQuestions
    /\ chats = 0
    /\ cache_dir # {}
    /\ metadata = NoMetadata

is_valid_file(data) == _validate_data_structure(data).valid

\* C12: load_json_file with cache=True on a structurally valid document
\* returns the document and makes it the active one, wherever the write of
\* the cache fails or not; it does not raise.
C12_CacheFailureDoesNotFailLoad ==
    [][\A data \in Files, failure \in SaveFailures :
          (is_valid_file(data) /\ LoadJsonFile(data, TRUE, failure))
            => /\ outcome' = [of |-> "load_json_file", kind |-> "returned", value |-> data]
               /\ current_data' = data]_vars

\* C12 happens: a valid document was loaded while the write of its cache
\* copy failed
C12_Witness ==
    /\ last_call = "load_json_file"
    /\ outcome.kind = "returned"
    /\ current_data = outcome.value
    /\ cached_file_path # CachePath(current_data)
    /\ (metadata.kind = "record" => metadata.file_path # CachePath(current_data))

\* C13: a restart of the process restores the document that was active just
\* before it, and none if none was active (the last operation was a clear).
C13_RestartRestoresActive ==
    [][last_call' = "load_cached_file" => current_data' = current_data]_vars

CacheCalls == {"clear_data", "load_cached_file", "get_cached_file_info"}

\* C14: clear_data, load_cached_file and get_cached_file_info never raise,
\* whatever the state of the cache, and after clear_data there is no active
\* document and no pointer to a cached file.
C14_CacheCallsNeverRaise ==
    /\ last_call \in CacheCalls => outcome.kind = "returned"
    /\ last_call = "clear_data" =>
          /\ current_data = py_none
          /\ cached_file_path = py_none
          /\ cached_file_name = py_none

store_pcs == {"generate_sql", "create_pool", "acquire", "fetch"}

\* C15: a question that arrives while a document is loaded is routed to the
\* document and never reaches the store path, a question that arrives while
\* none is loaded is routed to the store path; and the document stays loaded
\* from the upload that succeeded until clear_data: it only changes by such an
\* upload, to the document uploaded, or by clear_data, to none.
C15_DocumentSupersedesStore ==
    /\ [][/\ \A t \in Handlers :
               (handlers[t].pc = "idle" /\ handlers'[t].pc = "processing_msg")
                  => handlers'[t].route = (IF current_data # py_none THEN "file" ELSE "store")
          /\ current_data' # current_data
                  => (IF current_data' = py_none THEN last_call' = "clear_data"
                      ELSE /\ last_call' = "load_json_file"
                           /\ outcome'.kind = "returned"
                           /\ outcome'.value = current_data')]_vars
    /\ [](\A t \in Handlers :
            /\ handlers[t].route = "file" => handlers[t].pc \notin store_pcs
            /\ handlers[t].route = "store" => handlers[t].pc # "chat")

C15_Witness ==
    \E t \in Handlers :
        /\ handlers[t].route = "file" /\ handlers[t].pc = "chat"
        /\ current_data # py_none /\ cached_file_path = py_none

\* C16: the reads of the active document made for one question in file mode
\* all see the same document, whatever is loaded or cleared while the call of
\* the model is in flight.
C16_ReadsSeeOneDocument ==
    \A t \in Handlers : \A i, j \in DOMAIN handlers[t].reads :
        handlers[t].reads[i] = handlers[t].reads[j]

\* the handlers whose call of the model never returns
stuck_handlers == {t \in Handlers : handlers[t].stuck}

\* C19: a question comes to its end unless its own call of the model is the
\* one that never returns, whatever calls of other questions are stuck, on
\* the store path and on the file path.
C19_StuckDelaysOnlyItself ==
    \A t \in 1..(MaxHandlers + 1) :
        (handlers[t].pc # "idle") ~> (handlers[t].pc = "idle" \/ t \in stuck_handlers)

C19_Witness ==
    \E t \in stuck_handlers, u \in Handlers \ stuck_handlers :
        /\ handlers[t].pc \in {"chat", "generate_sql"}
        /\ handlers[u].pc \in {"chat", "fetch"}

\* the handlers whose statement is executing on a connection
executing == {t \in Handlers : handlers[t].pc = "fetch"}

\* C17: at any moment at most max_size (5) store queries are executing, in
\* every interleaving, the questions that arrive before the pool exists
\* included; there is never more than one pool, and once close() has run every
\* pool that was created is closed.
C17_OnePoolFiveQueries ==
    /\ Cardinality(executing) <= max_size
    /\ Len(pools) <= 1
    /\ ~polling => \A p \in DOMAIN pools : pools[p].closed

\* the handlers suspended in acquire() of a pool all of whose connections are
\* acquired
waiting == {t \in Handlers : handlers[t].pc = "acquire" /\ pools[handlers[t].pool].busy = max_size}

\* C18: a question that finds every connection of the pool in use is not
\* failed: it stays suspended in acquire() until it is given a connection;
\* every connection acquired is given back when its statement ends, raising
\* or not; and the question that waits does come to execute its statement.
C18_WaitingQuestionRuns ==
    /\ [][\A t \in Handlers :
             /\ (t \in waiting /\ handlers'[t] # handlers[t]) => handlers'[t].pc = "fetch"
             /\ (handlers[t].pc = "fetch" /\ handlers'[t].pc # "fetch")
                   => pools'[handlers[t].pool].busy = pools[handlers[t].pool].busy - 1]_vars
    /\ [](\A p \in DOMAIN pools :
            pools[p].busy = Cardinality({t \in executing : handlers[t].pool = p}))
    /\ \A t \in 1..PoolHandlers : (t \in waiting) ~> (handlers[t].pc = "fetch")

C18_Witness == waiting # {} /\ Cardinality(executing) >= max_size

\* two questions resolved that were the same question, with the same reply of
\* the model and the same data source behind them
same_inputs(a, b) ==
    /\ a.question = b.question
    /\ a.model = b.model
    /\ a.source = b.source

-----------------------------------------------------------------------------
(* Claims C21 to C30 *)

\* C21: the text generate_sql returns holds no semicolon: nothing that
\* follows the first statement of the reply is passed on.
C21_NoSemicolonReturned ==
    (called /\ ret.ok) => ~contains(ret.text, <<";">>)

\* C22: a text generate_sql returns starts with SELECT, in any letter case,
\* and is at least MinSqlLength (10) characters long; for every other reply
\* generate_sql raises, and raises its one exception.
C22_ReturnedIsSelect ==
    called =>
        IF ret.ok
        THEN Len(ret.text) >= MinSqlLength /\ startswith(upper(ret.text), kwSELECT)
        ELSE startswith(ret.error, msgApiError)

C22_Witness ==
    /\ called /\ ~ret.ok
    /\ arg = choices(reply_short)
    /\ ret.error = msgApiError \o msgTooShort

\* every white space of s is one space that no other white space touches
single_spaced(s) ==
    \A i \in DOMAIN s :
        s[i] \in Whitespace =>
            s[i] = " " /\ (i > 1 => s[i - 1] \notin Whitespace)

\* two digits of s with one space between them
has_split_number(s) ==
    \E i \in 1..(Len(s) - 2) :
        s[i] \in Digits /\ s[i + 1] = " " /\ s[i + 2] \in Digits

\* C23: _normalize_query merges every number written as two or more digit
\* groups with one space between them into one run of digits, for any number
\* of groups: no two digits of the result have a space between them.
C23_DigitGroupsMerged ==
    (called /\ single_spaced(arg)) => ~has_split_number(ret)

\* C24: _normalize_query replaces a key of the synonym table in whatever
\* letter case the question writes it: the result for a question, letter case
\* apart, is the result for the question in lower case.
C24_SynonymsAnyCase ==
    called => lower(ret) = _normalize_query(lower(arg))

\* the pieces of s that white space delimits
tokens(s) ==
    LET pieces == split_on(collapse_whitespace(s), " ")
    IN  {pieces[i] : i \in DOMAIN pieces} \ {<<>>}

\* a piece that holds a digit and a character that is no digit
mixed(p) == (\E i \in DOMAIN p : p[i] \in Digits) /\ ~isdigit(p)

\* C25: _normalize_query removes a space only between two pieces that consist
\* of digits alone: a piece that mixes digits with other characters is a piece
\* of the result as it was, joined to nothing.
C25_MixedTokensKept ==
    called => \A p \in tokens(arg) : mixed(p) => p \in tokens(ret)

\* C26: the text _prepare_data_context returns is no longer than max_size,
\* whatever the document and whatever max_size.
C26_ContextWithinMaxSize ==
    called => Len(ret) <= arg.max_size

\* the positions of videos that ret can have been taken from: one position for
\* each element of ret, no position for two of them
taken_from(videos, selection) ==
    \E at \in [DOMAIN selection -> DOMAIN videos] :
        /\ \A i \in DOMAIN selection : videos[at[i]] = selection[i]
        /\ \A i, j \in DOMAIN selection : i # j => at[i] # at[j]

\* the longest list of snapshots a video of videos holds
most_snapshots(videos) ==
    LET lengths == {snapshots_len(videos[i]) :
                       i \in {j \in DOMAIN videos : has_snapshots(videos[j])}} \cup {0}
    IN  CHOOSE n \in lengths : \A m \in lengths : m <= n

\* C27: _select_sample_videos returns the videos as they are when they are at
\* most max_samples; of more videos it returns max_samples, each from a
\* position of its own, the first video first and, for max_samples of two or
\* more, a video with the longest list of snapshots among them.
C27_SampleOfVideos ==
    called =>
        IF Len(arg.videos) <= arg.max_samples THEN ret = arg.videos
        ELSE /\ Len(ret) = arg.max_samples
             /\ taken_from(arg.videos, ret)
             /\ arg.max_samples >= 1 => ret[1] = arg.videos[1]
             /\ arg.max_samples >= 2 =>
                    \E i \in DOMAIN ret :
                        IF has_snapshots(ret[i])
                        THEN snapshots_len(ret[i]) = most_snapshots(arg.videos)
                        ELSE most_snapshots(arg.videos) = 0

\* the string of the first probe that finds one: holds says whether a probe does
first_string(response) ==
    CASE response.shape \in {"choices", "content", "str", "choices_none_content"} ->
            [holds |-> TRUE, text |-> response.content]
      [] response.shape = "attr" ->
            [holds |-> strip(response.content) # <<>>, text |-> response.content]
      [] OTHER -> [holds |-> FALSE, text |-> <<>>]

\* C28: the text of a response is the string of the first probe that finds one,
\* a probe that finds None is passed over, and when no probe finds a string
\* generate_sql fails with the failure of the unexpected format and no other.
C28_ProbesInOrder ==
    called =>
        IF first_string(arg).holds
        THEN ret = clean_response([shape |-> "str", content |-> first_string(arg).text])
        ELSE ~ret.ok /\ startswith(ret.error, msgApiError \o msgUnexpectedFormat)

\* C29: a load_json_file that raises (the file is missing, its text is no
\* JSON, or its structure is rejected) leaves the active document, with it
\* has_data(), and the record of the cache as they were before the call.
C29_FailedLoadChangesNothing ==
    [][\A data \in Files, failure \in SaveFailures :
          (LoadJsonFile(data, TRUE, failure) /\ outcome'.kind = "raised")
            => UNCHANGED <<current_data, cached_file_path, cached_file_name, cache_dir,
                           metadata>>]_vars

\* C29 happens: a load was rejected while a document loaded and cached before
\* it is the active one
C29_Witness ==
    /\ last_call = "load_json_file"
    /\ outcome.kind = "raised"
    /\ outcome.exc = "FileNotFoundError"
    /\ current_data = document_two
    /\ cached_file_path = CachePath(document_two)
    /\ metadata.kind = "record"

\* the children that a thread holds: in self.process, or returned by Popen and
\* about to be put there
held == {process} \cup {threads[t].started : t \in WatchThreads}

\* C30: at most one bot process started by the watcher is alive, however the
\* callback of the observer thread and the loop of main interleave, and every
\* process that is alive is held by the watcher.
C30_OneChildAlive ==
    /\ Cardinality(alive) <= 1
    /\ alive \subseteq held
=============================================================================
